---- MODULE Spec2Model ----
(***************************************************************************)
(* Model of the ingestion-and-query pipeline of RAG-Edtech:                *)
(*   - the embedding worker draining chunks.processing                     *)
(*     (services/vectorization/workers/embedding_worker.py),               *)
(*   - the upload handler of the document processor                        *)
(*     (services/document-processor/main.py),                              *)
(*   - the frequency-gated response cache                                  *)
(*     (services/rag-query/cache/redis_cache.py),                          *)
(*   - the per-document and global query handlers                          *)
(*     (services/rag-query/main.py, pipeline/rag_pipeline.py).             *)
(* Every await of a handler is a suspension point, so a handler is a       *)
(* sequence of steps, one per store / bus / index operation.               *)
(***************************************************************************)
EXTENDS Integers, Sequences, FiniteSets, TLC

(***************************************************************************)
(* Bounds of the model.                                                    *)
(***************************************************************************)
MaxChunks == 2
MaxCrashes == 1
MaxLen == 2
\* answered requests kept in db.questions
MaxLog == 2
\* chunks of one streamed answer
MaxStream == 2
\* seconds the gateway's clock may reach, outages of its Redis, and calls of
\* check_rate_limit
MaxClock == 2
MaxOutages == 1
MaxRequests == 2
\* the max_length of validate_question (500), scaled down
max_length == 3
\* seconds a token is followed after it was issued
MaxAge == 3
\* settings.max_file_size_mb and the bytes of a megabyte, scaled down
max_file_size_mb == 1
BytesPerMb == 2
\* status events published while sockets come and go
MaxEvents == 2
\* the largest chunk_size and chunk_overlap a chunker is built with, the
\* tokens of a section, and the chunks a section is followed for
MaxSize == 3
MaxTokens == 4
MaxWindows == MaxTokens + 1

Workers == {"w1", "w2"}
ContentIds == {"d0", "d1", "d2"}
NoDoc == [exists |-> FALSE]
NoMsg == [content_id |-> "none", chunk_index |-> -1]

VARIABLES
    content,      \* db.content: content_id -> document record or NoDoc
    queue,        \* chunks.processing: messages ready for delivery
    worker,       \* per consumer: position in _process_message and its locals
    vectors,      \* Pinecone: namespace -> (vector_id -> metadata)
    published,    \* Redis channel document:status:{id} -> sequence of events
    crashes,      \* number of consumer crashes so far
    upserted,     \* history: content_id -> chunk indices whose upsert ran
    upload,       \* per upload request: position in upload_content and locals
    now,          \* Redis clock, in seconds
    ticks,        \* number of clock advances so far
    frequency,    \* Redis rag_frequency:{id}:{hash} -> counter and its expiry
    cache,        \* Redis rag_cache:{id}:{hash} -> cached response and expiry
    query,        \* the per-document request: position in process_query
    asks,         \* history: cache key -> number of answered asks
    last,         \* history: cache key -> result of the latest answered ask
    leaked,       \* history: cache key -> some answer failed the safety check
    globalq,      \* the global request: position in global_chat_complete
    failed,       \* chunks.failed: the messages in the dead-letter queue
    rejected,     \* history: the messages the consumers rejected
    gsearch,      \* GlobalQueryService.run: the retrieval and its diversification
    ask,          \* the request of a per-document query endpoint in flight
    questions,    \* db.questions, the question log
    access,       \* the last call of get_user_accessible_docs and its result
    deletion,     \* the DELETE /api/content/{content_id} request in flight
    stream,       \* a streamed answer: the LLM stream, the two generators
                  \* that relay it and the client's connection
    limiter,      \* the gateway's rate limiter: its sorted sets in Redis and
                  \* the check_rate_limit calls in flight
    call,         \* a call of a function of the shared utilities: its
                  \* arguments and what it returned or raised
    manager       \* the document processor's ConnectionManager: its sockets,
                  \* its listener task and the Redis pub/sub behind it

ingest_vars == <<content, queue, worker, vectors, published, crashes, upserted>>
upload_vars == <<upload>>
cache_vars == <<now, ticks, frequency, cache>>
query_vars == <<query, asks, last, leaked>>
global_vars == <<globalq>>
broker_vars == <<failed, rejected>>
search_vars == <<gsearch>>
ask_vars == <<ask, questions>>
access_vars == <<access, deletion>>
side_vars == <<stream, limiter, call, manager>>
rest_vars == <<broker_vars, search_vars, ask_vars, access_vars, side_vars>>

vars == <<ingest_vars, upload_vars, cache_vars, query_vars, global_vars,
          rest_vars>>

(***************************************************************************)
(* Document record as written by upload_content (ContentMetadata).         *)
(***************************************************************************)
NewContent(hash, user, total) ==
    [exists |-> TRUE, content_hash |-> hash, user_id |-> user,
     status |-> "processing", total_chunks |-> total, processed_chunks |-> 0,
     upload_history |-> <<user>>]

\* {content_id}_{chunk_index}, kept as a pair
VectorId(cid, idx) == <<cid, idx>>

\* the chunk-job messages publish_chunks sends for a document of n chunks
ChunkMessages(cid, n) ==
    {[content_id |-> cid, chunk_index |-> i] : i \in 0..(n - 1)}

IdleWorker == [pc |-> "idle", msg |-> NoMsg, updated_doc |-> NoDoc]

UploadIds == {"r1", "r2"}
NoResponse == [content_id |-> "none"]
IdleUpload == [pc |-> "start", text |-> <<>>, content_hash |-> <<>>,
               chunks |-> 0, existing |-> NoDoc, existing_id |-> "none",
               response |-> NoResponse, filename |-> <<>>, file_size |-> 0,
               saved |-> FALSE, error |-> "none", sent |-> 0,
               chunked |-> FALSE]

\* str.lower()
Lower(c) ==
    CASE c = "A" -> "a"
      [] c = "I" -> "i"
      [] c = "SYSTEM:" -> "system:"
      [] c = "You are an expert IB Chemistry tutor" ->
            "you are an expert ib chemistry tutor"
      [] c = "Ignore previous instructions" -> "ignore previous instructions"
      [] OTHER -> c

(***************************************************************************)
(* The Redis keys of the response cache and the idle query side.           *)
(***************************************************************************)
Questions == {"a", "A"}
CacheDocs == {"d0", "d1"}

\* f"rag_cache:{content_id}:{sha256(question.lower())}"
_generate_cache_key(content_id, question) == <<content_id, Lower(question)>>

\* f"rag_frequency:{content_id}:{sha256(question.lower())}"
_generate_frequency_key(content_id, question) ==
    <<content_id, Lower(question)>>

CacheKeys == {_generate_cache_key(c, q) : c \in ContentIds, q \in Questions}

NoExpiry == -1
NoCounter == [count |-> 0, expires |-> NoExpiry]
NoEntry == [exists |-> FALSE, response |-> <<>>, expires |-> NoExpiry]
NoResult == [cached |-> FALSE, response |-> <<>>]
IdleQuery == [pc |-> "idle", content_id |-> "none", question |-> "none",
              response_data |-> <<>>]
IdleGlobal == [pc |-> "idle", user_id |-> "none", selected_ids |-> <<>>,
               accessible_doc_ids |-> {}, doc_ids |-> {}, queried |-> {},
               outcome |-> "none", delegated |-> FALSE]

query_side == <<cache_vars, query_vars, global_vars, rest_vars>>

IdleSearch == [pc |-> "idle", doc_ids |-> <<>>, namespaces |-> <<>>,
               results |-> <<>>, order |-> <<>>, by_doc |-> <<>>,
               diverse |-> <<>>, fallback |-> FALSE]

\* nothing dead-lettered, nothing rejected
BrokerIdle ==
    /\ failed = {}
    /\ rejected = {}

IdleAsk == [pc |-> "idle", path |-> "none", content_id |-> "none",
            question |-> "none", sanitized |-> "none", response_text |-> <<>>,
            delivered |-> <<>>, cached |-> FALSE, sources |-> <<>>,
            embedded |-> FALSE, generated |-> FALSE, cache_read |-> FALSE,
            cache_written |-> FALSE, outcome |-> "none"]

\* no per-document request in flight, an empty question log
AskIdle ==
    /\ ask = IdleAsk
    /\ questions = <<>>

IdleAccess == [user_id |-> "none", doc_ids |-> {}]

NoStats == [mongodb_deleted |-> FALSE, vectors_deleted |-> FALSE,
            file_deleted |-> FALSE, cache_cleared |-> FALSE,
            questions_affected |-> 0]
IdleDeletion == [pc |-> "idle", content_id |-> "none", user_id |-> "none",
                 redis |-> FALSE, second |-> FALSE, gone |-> {},
                 status_code |-> 0, stats |-> NoStats]
IdleStream == [pc |-> "idle", content_id |-> "none", question |-> "none",
               answer |-> <<>>, n |-> 0,
               pipeline_text |-> <<>>, response_text |-> <<>>,
               delivered |-> <<>>, failed |-> FALSE, disconnected |-> FALSE,
               cache_written |-> FALSE, logged |-> FALSE]

LimitIds == {"c1", "c2"}
LimiterKeys == {"rate_limit:user:u1", "rate_limit:global"}
IdleLimit == [pc |-> "idle", key |-> "none", current_time |-> -1,
              outcome |-> "none", failed_op |-> "none"]
IdleLimiter == [up |-> TRUE, outages |-> 0, clock |-> 0, started |-> 0,
                zset |-> [k \in LimiterKeys |-> {}],
                expires |-> [k \in LimiterKeys |-> NoExpiry],
                req |-> [r \in LimitIds |-> IdleLimit],
                admitted |-> <<>>]
NoCall == [pc |-> "none"]

\* what no specification but its own moves
\* ConnectionManager.__init__, and nothing published yet
IdleManager == [active_connections |-> [c \in {"d0", "d1"} |-> {}],
                listener_task |-> "None", inbox |-> <<>>, events |-> 0,
                received |-> [ws \in {"s1", "s2"} |-> <<>>]]

OthersIdle ==
    /\ access = IdleAccess
    /\ deletion = IdleDeletion
    /\ stream = IdleStream
    /\ limiter = IdleLimiter
    /\ manager = IdleManager

\* everything outside ingestion, upload, cache and queries at rest
RestIdle ==
    /\ BrokerIdle
    /\ gsearch = IdleSearch
    /\ AskIdle
    /\ OthersIdle
    /\ call = NoCall

\* a fresh Redis and no query in flight
QueryIdle ==
    /\ now = 0
    /\ ticks = 0
    /\ frequency = [k \in CacheKeys |-> NoCounter]
    /\ cache = [k \in CacheKeys |-> NoEntry]
    /\ query = IdleQuery
    /\ asks = [k \in CacheKeys |-> 0]
    /\ last = [k \in CacheKeys |-> NoResult]
    /\ leaked = [k \in CacheKeys |-> FALSE]
    /\ globalq = IdleGlobal

QuerySideIdle == QueryIdle /\ RestIdle

(***************************************************************************)
(* EmbeddingWorker._process_message, step by step.                         *)
(***************************************************************************)

\* queue.consume hands a ready message to the callback; the embedding is
\* generated (no state change) and the handler stands before the upsert.
Deliver(w) ==
    /\ worker[w].pc = "idle"
    /\ \E m \in queue :
        /\ queue' = queue \ {m}
        /\ worker' = [worker EXCEPT ![w] = [pc |-> "upsert", msg |-> m,
                                            updated_doc |-> NoDoc]]
    /\ UNCHANGED <<content, vectors, published, crashes, upserted>>

\* an insert that never overwrites: every write gets a record of its own
UpsertVectorInsert(index, namespace, vector_id, metadata) ==
    [index EXCEPT ![namespace] =
        [v \in (DOMAIN index[namespace])
                \cup {<<vector_id, Cardinality(DOMAIN index[namespace])>>} |->
            IF v \in DOMAIN index[namespace]
            THEN index[namespace][v] ELSE metadata]]

\* PineconeClient.upsert_vector: index.upsert of one (id, vector, metadata)
\* into the namespace: a write keyed by the vector id.
UpsertVector(index, namespace, vector_id, metadata) ==
    [index EXCEPT ![namespace] =
        [v \in (DOMAIN index[namespace]) \cup {vector_id} |->
            IF v = vector_id THEN metadata ELSE index[namespace][v]]]

Upsert(w) ==
    /\ worker[w].pc = "upsert"
    /\ LET m == worker[w].msg IN
        vectors' = UpsertVector(vectors, m.content_id,
                                VectorId(m.content_id, m.chunk_index),
                                [content_id |-> m.content_id,
                                 chunk_index |-> m.chunk_index])
    /\ upserted' = [upserted EXCEPT ![worker[w].msg.content_id] =
                        @ \cup {worker[w].msg.chunk_index}]
    /\ worker' = [worker EXCEPT ![w].pc = "inc"]
    /\ UNCHANGED <<content, queue, published, crashes>>

\* find_one_and_update({content_id}, {$inc: {processed_chunks: 1}},
\* return_document=True): atomic, unconditional, returns the updated record
\* (None when no record matches).
IncProcessed(doc) == [doc EXCEPT !.processed_chunks = @ + 1]

Increment(w) ==
    /\ worker[w].pc = "inc"
    /\ LET cid == worker[w].msg.content_id IN
        IF content[cid].exists
        THEN /\ content' = [content EXCEPT ![cid] = IncProcessed(@)]
             /\ worker' = [worker EXCEPT ![w].pc = "progress",
                              ![w].updated_doc = IncProcessed(content[cid])]
        ELSE /\ content' = content
             /\ worker' = [worker EXCEPT ![w].pc = "ack"]
    /\ UNCHANGED <<queue, vectors, published, crashes, upserted>>

\* int((processed / total) * 100) if total > 0 else 0
Progress(processed, total) ==
    IF total > 0 THEN (processed * 100) \div total ELSE 0

\* the periodic status_update of lines 164-176
ProgressEvent(doc) ==
    [status |-> IF doc.processed_chunks < doc.total_chunks
                THEN "processing" ELSE "completed",
     progress |-> Progress(doc.processed_chunks, doc.total_chunks),
     message |-> "vectorizing",
     processed_chunks |-> doc.processed_chunks,
     total_chunks |-> doc.total_chunks]

\* processed % 5 == 0 or processed >= total
ShouldPublishProgress(doc) ==
    \/ doc.processed_chunks % 5 = 0
    \/ doc.processed_chunks >= doc.total_chunks

\* redis_client.client.publish inside try/except: the event is published, or
\* the call raises (client not connected, Redis unreachable) and the failure
\* is logged and ignored.
PublishOrFail(cid, event) ==
    \/ published' = [published EXCEPT ![cid] = Append(@, event)]
    \/ published' = published

PublishProgress(w) ==
    /\ worker[w].pc = "progress"
    /\ LET doc == worker[w].updated_doc
           cid == worker[w].msg.content_id IN
        IF ShouldPublishProgress(doc)
        THEN PublishOrFail(cid, ProgressEvent(doc))
        ELSE published' = published
    /\ worker' = [worker EXCEPT ![w].pc = "check"]
    /\ UNCHANGED <<content, queue, vectors, crashes, upserted>>

\* processed >= total and updated_doc.get('status') != 'completed'
ShouldComplete(doc) ==
    /\ doc.processed_chunks >= doc.total_chunks
    /\ doc.status # "completed"

\* update_one({content_id, status: {$ne: completed}}, {$set: {status: completed}})
MarkCompleted(doc) ==
    IF doc.exists /\ doc.status # "completed"
    THEN [doc EXCEPT !.status = "completed"]
    ELSE doc

CheckCompletion(w) ==
    /\ worker[w].pc = "check"
    /\ LET cid == worker[w].msg.content_id IN
        IF ShouldComplete(worker[w].updated_doc)
        THEN /\ content' = [content EXCEPT ![cid] = MarkCompleted(@)]
             /\ worker' = [worker EXCEPT ![w].pc = "completion"]
        ELSE /\ content' = content
             /\ worker' = [worker EXCEPT ![w].pc = "ack"]
    /\ UNCHANGED <<queue, vectors, published, crashes, upserted>>

\* the final status_update of lines 194-204
CompletionEvent(doc) ==
    [status |-> "completed", progress |-> 100, message |-> "ready",
     processed_chunks |-> doc.processed_chunks,
     total_chunks |-> doc.total_chunks]

PublishCompletion(w) ==
    /\ worker[w].pc = "completion"
    /\ PublishOrFail(worker[w].msg.content_id,
                     CompletionEvent(worker[w].updated_doc))
    /\ worker' = [worker EXCEPT ![w].pc = "ack"]
    /\ UNCHANGED <<content, queue, vectors, crashes, upserted>>

\* leaving `async with message.process()` without an exception acks
Ack(w) ==
    /\ worker[w].pc = "ack"
    /\ worker' = [worker EXCEPT ![w] = IdleWorker]
    /\ UNCHANGED <<content, queue, vectors, published, crashes, upserted>>

\* The consumer dies (or its connection drops) while the delivery is still
\* unacknowledged: the broker re-queues the message (at-least-once).
Crash(w) ==
    /\ worker[w].pc # "idle"
    /\ crashes < MaxCrashes
    /\ crashes' = crashes + 1
    /\ queue' = queue \cup {worker[w].msg}
    /\ worker' = [worker EXCEPT ![w] = IdleWorker]
    /\ UNCHANGED <<content, vectors, published, upserted>>

WorkerStep(w) ==
    \/ Deliver(w)
    \/ Upsert(w)
    \/ Increment(w)
    \/ PublishProgress(w)
    \/ CheckCompletion(w)
    \/ PublishCompletion(w)
    \/ Ack(w)

\* State after upload_content has stored document d0 of up to MaxChunks
\* chunks, or the one-chunk documents d0 and d1, and published their chunk
\* jobs.
InitWorker ==
    /\ \E n0 \in 1..MaxChunks, n1 \in 0..1 :
        /\ n1 = 1 => n0 = 1
        /\ content = [c \in ContentIds |->
                        IF c = "d0" THEN NewContent("h0", "u1", n0)
                        ELSE IF c = "d1" /\ n1 = 1
                             THEN NewContent("h1", "u2", 1)
                        ELSE NoDoc]
        /\ queue = ChunkMessages("d0", n0) \cup ChunkMessages("d1", n1)
    /\ worker = [w \in Workers |-> IdleWorker]
    /\ vectors = [c \in ContentIds |-> <<>>]
    /\ published = [c \in ContentIds |-> <<>>]
    /\ crashes = 0
    /\ upserted = [c \in ContentIds |-> {}]
    /\ upload = [r \in UploadIds |-> IdleUpload]
    /\ QuerySideIdle

NextWorker ==
    \/ \E w \in Workers : WorkerStep(w) /\ UNCHANGED <<upload_vars, query_side>>
    \/ \E w \in Workers : Crash(w) /\ UNCHANGED <<upload_vars, query_side>>

SpecWorker == InitWorker /\ [][NextWorker]_vars

(***************************************************************************)
(* Properties of the embedding worker.                                     *)
(***************************************************************************)
ExistingDocs == {d \in ContentIds : content[d].exists}

\* number of events with status completed on the channel of document d
CompletedEvents(d) ==
    Cardinality({i \in 1..Len(published[d]) :
                    published[d][i].status = "completed"})

\* no delivery is in flight and nothing is left to deliver
Drained == queue = {} /\ \A w \in Workers : worker[w].pc = "idle"

\* C1: in every reachable state every document has
\* 0 <= processed_chunks <= total_chunks, and a completed document has
\* processed_chunks = total_chunks.
C1_ProcessedWithinTotal ==
    \A d \in ExistingDocs :
        /\ 0 <= content[d].processed_chunks
        /\ content[d].processed_chunks <= content[d].total_chunks
        /\ content[d].status = "completed" =>
              content[d].processed_chunks = content[d].total_chunks

\* C2: processed_chunks is incremented at most once per chunk index: it never
\* exceeds the number of distinct chunk indices processed, and equals it once
\* all deliveries are done.
C2_IncrementOncePerChunk ==
    \A d \in ExistingDocs :
        /\ content[d].processed_chunks <= Cardinality(upserted[d])
        /\ Drained => content[d].processed_chunks = Cardinality(upserted[d])

\* C3: on every document channel at most one event with status completed is
\* ever published, and after the queue has drained exactly one.
C3_CompletedEventOnce ==
    \A d \in ExistingDocs :
        /\ CompletedEvents(d) <= 1
        /\ Drained => CompletedEvents(d) = 1

\* the vector namespace of d holds exactly one record per chunk index whose
\* upsert ran, stored under the id {d}_{chunk_index}
OneVectorPerChunk ==
    \A d \in ContentIds :
        /\ DOMAIN vectors[d] = {VectorId(d, i) : i \in upserted[d]}
        /\ \A v \in DOMAIN vectors[d] :
              /\ vectors[d][v].content_id = d
              /\ v = VectorId(d, vectors[d][v].chunk_index)

\* an upsert step for a chunk index whose upsert already ran
RepeatedUpsert ==
    \E w \in Workers :
        /\ worker[w].pc = "upsert"
        /\ worker'[w].pc = "inc"
        /\ worker[w].msg.chunk_index \in upserted[worker[w].msg.content_id]

\* C9: after any sequence of deliveries the namespace of a document holds
\* exactly one vector record per distinct chunk index processed, with id
\* {document-id}_{chunk-index}, and processing a job again leaves the vector
\* index as it was.
C9_UpsertIdempotent ==
    [][/\ OneVectorPerChunk'
       /\ RepeatedUpsert => vectors' = vectors]_vars

\* a job was delivered twice and both upserts ran: the namespace still has
\* one record for it
C9_Witness ==
    \E d \in ExistingDocs :
        /\ content[d].processed_chunks > Cardinality(upserted[d])
        /\ Cardinality(DOMAIN vectors[d]) = Cardinality(upserted[d])
        /\ upserted[d] # {}

\* C10: status is completed exactly when processed_chunks has reached
\* total_chunks.
C10_CompletedIffReached ==
    \A d \in ExistingDocs :
        content[d].status = "completed" <=>
            content[d].processed_chunks >= content[d].total_chunks

Alphabet == {"a", "A", " "}
Contents == UNION {[1..n -> Alphabet] : n \in 0..MaxLen}
Uploader == [r1 |-> "u1", r2 |-> "u2"]
UploadContentId == [r1 |-> "d1", r2 |-> "d2"]

LowerAll(s) == [i \in 1..Len(s) |-> Lower(s[i])]

\* re.sub(r'\s+', ' ', s): every run of whitespace becomes one space
RECURSIVE CollapseWhitespace(_)
CollapseWhitespace(s) ==
    IF s = <<>> THEN <<>>
    ELSE IF Head(s) = " " /\ Len(s) > 1 /\ s[2] = " "
         THEN CollapseWhitespace(Tail(s))
         ELSE <<Head(s)>> \o CollapseWhitespace(Tail(s))

\* str.strip()
RECURSIVE Strip(_)
Strip(s) ==
    IF s = <<>> THEN <<>>
    ELSE IF Head(s) = " " THEN Strip(Tail(s))
    ELSE IF s[Len(s)] = " " THEN Strip(SubSeq(s, 1, Len(s) - 1))
    ELSE s

\* ContentHasher.normalize_content
normalize_content(s) == Strip(CollapseWhitespace(LowerAll(s)))

\* ContentHasher.generate_content_hash: SHA-256 of the normalized text (of
\* b"" for empty content); the digest is represented by its preimage, SHA-256
\* being taken as injective.
generate_content_hash(s) ==
    IF s = <<>> THEN <<>> ELSE normalize_content(s)

\* settings.chunk_size and settings.chunk_overlap, scaled down to the text
\* lengths of the model (512 and 50 in the source)
chunk_size == 1
chunk_overlap == 0

\* the while loop of TokenBasedChunker._chunk_section over a section of
\* len tokens: windows [start, min(start + chunk_size, len))
RECURSIVE TokenWindows(_, _)
TokenWindows(start, len) ==
    IF start < len
    THEN <<[start_token |-> start,
            end_token |-> IF start + chunk_size < len
                          THEN start + chunk_size ELSE len]>>
         \o TokenWindows(start + (chunk_size - chunk_overlap), len)
    ELSE <<>>

\* TokenBasedChunker._chunk_section; the tokenizer is taken to give one token
\* per character
_chunk_section(text) ==
    IF Len(text) <= chunk_size
    THEN <<[start_token |-> 0, end_token |-> Len(text)]>>
    ELSE TokenWindows(0, Len(text))

\* TokenBasedChunker.chunk_document for a text without headings: one section
chunk_document(text) == _chunk_section(text)

\* db.content.find_one({"content_hash": h}): the records with that hash
FindByHash(h) ==
    {d \in ContentIds : content[d].exists /\ content[d].content_hash = h}

\* save_uploaded_file, parse_document, chunker.chunk_document,
\* generate_content_hash, then find_one by content hash
UploadFind(r) ==
    /\ upload[r].pc = "start"
    /\ \E t \in Contents :
        LET h == generate_content_hash(t)
            n == Len(chunk_document(t)) IN
        \/ /\ FindByHash(h) = {}
           /\ upload' = [upload EXCEPT ![r] =
                [@ EXCEPT !.pc = "insert", !.text = t, !.content_hash = h,
                          !.chunks = n, !.chunked = TRUE, !.saved = TRUE]]
        \/ \E d \in FindByHash(h) :
              upload' = [upload EXCEPT ![r] =
                [@ EXCEPT !.pc = "dup", !.text = t, !.content_hash = h,
                          !.chunks = n, !.chunked = TRUE,
                          !.existing = content[d],
                          !.existing_id = d, !.saved = TRUE]]
    /\ UNCHANGED <<content, queue, published>>

\* an update that also restarts the processing of the existing document
PushUploadHistoryReset(doc, user) ==
    IF doc.exists
    THEN [doc EXCEPT !.upload_history = Append(@, user),
                     !.status = "processing", !.processed_chunks = 0]
    ELSE doc

\* update_one({content_id}, {$push: {upload_history: entry}})
PushUploadHistory(doc, user) ==
    IF doc.exists
    THEN [doc EXCEPT !.upload_history = Append(@, user)]
    ELSE doc

\* the duplicate branch: append to the upload history of the existing
\* document and answer with its id
UploadDuplicate(r) ==
    /\ upload[r].pc = "dup"
    /\ content' = [content EXCEPT ![upload[r].existing_id] =
                      PushUploadHistory(@, Uploader[r])]
    /\ upload' = [upload EXCEPT ![r].pc = "done",
                    ![r].response =
                        [content_id |-> upload[r].existing_id,
                         is_duplicate |-> TRUE,
                         status |-> upload[r].existing.status,
                         total_chunks |-> upload[r].existing.total_chunks]]
    /\ UNCHANGED <<queue, published>>

\* db.content.insert_one(content_metadata)
UploadInsert(r) ==
    /\ upload[r].pc = "insert"
    /\ content' = [content EXCEPT ![UploadContentId[r]] =
                      NewContent(upload[r].content_hash, Uploader[r],
                                 upload[r].chunks)]
    /\ upload' = [upload EXCEPT ![r].pc = "publish"]
    /\ UNCHANGED <<queue, published>>

\* the status update upload_content sends through manager.publish_status
UploadEvent(n) ==
    [status |-> "processing", progress |-> 10, message |-> "processing",
     processed_chunks |-> 0, total_chunks |-> n]

\* rabbitmq_publisher.publish_chunks, the processing event, os.remove of the
\* temporary file, the response
UploadPublish(r) ==
    /\ upload[r].pc = "publish"
    /\ queue' = queue \cup ChunkMessages(UploadContentId[r], upload[r].chunks)
    /\ PublishOrFail(UploadContentId[r], UploadEvent(upload[r].chunks))
    /\ upload' = [upload EXCEPT ![r].pc = "done", ![r].saved = FALSE,
                    ![r].response =
                        [content_id |-> UploadContentId[r],
                         is_duplicate |-> FALSE,
                         status |-> "processing",
                         total_chunks |-> upload[r].chunks]]
    /\ UNCHANGED <<content>>

UploadStep(r) ==
    \/ UploadFind(r)
    \/ UploadDuplicate(r)
    \/ UploadInsert(r)
    \/ UploadPublish(r)

\* the record of a document uploaded earlier with text t, still waiting for
\* its first chunk or fully processed
EarlierContent(t, done) ==
    LET n == Len(chunk_document(t)) IN
    [NewContent(generate_content_hash(t), "u0", n) EXCEPT
        !.status = IF done THEN "completed" ELSE "processing",
        !.processed_chunks = IF done THEN n ELSE 0]

\* Either the store is empty, or d0 was uploaded earlier.
InitUpload ==
    /\ \/ /\ content = [c \in ContentIds |-> NoDoc]
          /\ queue = {}
          /\ vectors = [c \in ContentIds |-> <<>>]
       \/ \E t \in Contents, done \in BOOLEAN :
          LET doc == EarlierContent(t, done) IN
          /\ content = [c \in ContentIds |-> IF c = "d0" THEN doc ELSE NoDoc]
          /\ queue = IF done THEN {} ELSE ChunkMessages("d0", doc.total_chunks)
          /\ vectors = [c \in ContentIds |->
                IF c = "d0" /\ done
                THEN [v \in {VectorId("d0", i) : i \in 0..(doc.total_chunks - 1)}
                        |-> [content_id |-> "d0", chunk_index |-> v[2]]]
                ELSE <<>>]
    /\ worker = [w \in Workers |-> IdleWorker]
    /\ published = [c \in ContentIds |-> <<>>]
    /\ crashes = 0
    /\ upserted = [c \in ContentIds |-> {}]
    /\ upload = [r \in UploadIds |-> IdleUpload]
    /\ QuerySideIdle

NextUpload ==
    \E r \in UploadIds :
        /\ UploadStep(r)
        /\ UNCHANGED <<worker, vectors, crashes, upserted, query_side>>

SpecUpload == InitUpload /\ [][NextUpload]_vars

(***************************************************************************)
(* Properties of upload_content.                                           *)
(***************************************************************************)
\* both uploads have been answered, they carried identical content, and no
\* document with that content hash existed beforehand
UploadedSameContent ==
    /\ upload["r1"].pc = "done"
    /\ upload["r2"].pc = "done"
    /\ upload["r1"].text = upload["r2"].text
    /\ content["d0"].exists =>
          content["d0"].content_hash # upload["r1"].content_hash

\* the document ids chunk jobs were published for by the two uploads
PublishedFor == {m.content_id : m \in {q \in queue : q.content_id # "d0"}}

\* C4: two concurrent uploads of identical content leave exactly one document
\* record with that hash, chunk jobs for exactly one document id, and the
\* other upload answered as a duplicate of it with one history entry appended.
C4_ConcurrentUploadsSerialize ==
    UploadedSameContent =>
        /\ Cardinality(FindByHash(upload["r1"].content_hash)) = 1
        /\ Cardinality(PublishedFor) = 1
        /\ \E r \in UploadIds, o \in UploadIds :
              /\ r # o
              /\ ~upload[r].response.is_duplicate
              /\ upload[o].response.is_duplicate
              /\ upload[o].response.content_id = upload[r].response.content_id
              /\ content[upload[r].response.content_id].upload_history
                    = <<Uploader[r], Uploader[o]>>

\* the lookup step of r: it is routed to the duplicate branch exactly when some
\* record carries the hash of its normalized text, and then to such a record
LookupByNormalizedHash(r) ==
    (upload[r].pc = "start" /\ upload'[r].pc # "start") =>
        LET matching == {d \in ExistingDocs :
                content[d].content_hash = normalize_content(upload'[r].text)}
        IN /\ upload'[r].pc = "dup" <=> matching # {}
           /\ upload'[r].pc = "dup" => upload'[r].existing_id \in matching

\* the duplicate branch of r: answer with the existing id, one history entry
\* more, nothing published, no record created, counters and status untouched
DuplicateFrame(r) ==
    (upload[r].pc = "dup" /\ upload'[r].pc = "done") =>
        LET d == upload[r].existing_id IN
        /\ upload'[r].response.content_id = d
        /\ upload'[r].response.is_duplicate
        /\ content'[d].upload_history
              = Append(content[d].upload_history, Uploader[r])
        /\ queue' = queue
        /\ {c \in ContentIds : content'[c].exists} = ExistingDocs
        /\ \A c \in ContentIds \ {d} : content'[c] = content[c]
        /\ content'[d].total_chunks = content[d].total_chunks
        /\ content'[d].processed_chunks = content[d].processed_chunks
        /\ content'[d].status = content[d].status

\* C5: an upload whose normalized content hash matches an existing document
\* returns that document's id with is_duplicate = true, appends exactly one
\* upload_history entry, publishes no chunk job, creates no record and leaves
\* total_chunks, processed_chunks and status of the document unchanged.
C5_DuplicateUpload ==
    [][\A r \in UploadIds : LookupByNormalizedHash(r) /\ DuplicateFrame(r)]_vars

\* a duplicate of a completed document was answered, and its raw text differs
\* from the normalized one
C5_Witness ==
    \E r \in UploadIds :
        /\ upload[r].pc = "done"
        /\ upload[r].response.is_duplicate
        /\ upload[r].text # upload[r].content_hash
        /\ content[upload[r].response.content_id].status = "completed"
        /\ Len(content[upload[r].response.content_id].upload_history) = 2

\* C37: during an upload the content-hash lookup happens before chunking, so
\* the chunker runs only for content that has no existing document: an upload
\* of duplicate content performs no chunker run.
C37_DuplicateNotChunked ==
    \A r \in UploadIds :
        (upload[r].pc \in {"dup", "done"} /\ upload[r].existing_id # "none")
            => ~upload[r].chunked

\* C24: an upload of a document with empty content creates a record with
\* total_chunks = 0 whose status is completed from the moment it exists, and
\* publishes no chunk job for it.
C24_EmptyUploadCompleted ==
    \A r \in UploadIds :
        (/\ upload[r].pc \in {"publish", "done"}
         /\ upload[r].text = <<>>)
            => /\ content[UploadContentId[r]].total_chunks = 0
               /\ content[UploadContentId[r]].status = "completed"
               /\ \A m \in queue : m.content_id # UploadContentId[r]

(***************************************************************************)
(* The validation upload_content runs before it touches anything: the file *)
(* type taken from the file name, then the size of the bytes read.  A file *)
(* name is the sequence of its parts between dots.                         *)
(***************************************************************************)
Filenames == {<<"notes", "pdf">>, <<"notes", "PDF">>, <<"notes", "exe">>,
              <<"notes", "txt", "exe">>, <<"notes">>, <<"txt">>}
FileSizes == {0, max_file_size_mb * BytesPerMb,
              max_file_size_mb * BytesPerMb + 1}
AllowedTypes == {"pdf", "md", "txt"}

LowerType(part) == IF part = "PDF" THEN "pdf" ELSE part

\* file.filename.split('.')[-1].lower(): the last part, which is the whole
\* name when it has no dot
file_extension(filename) == LowerType(filename[Len(filename)])

\* the two checks at the head of upload_content; FileValidationError leaves
\* the handler before its try block
UploadValidate(r) ==
    /\ upload[r].pc = "validate"
    /\ \E filename \in Filenames, size \in FileSizes :
        LET received == [upload[r] EXCEPT !.filename = filename,
                                          !.file_size = size] IN
        upload' = [upload EXCEPT ![r] =
            IF file_extension(filename) \notin AllowedTypes
            THEN [received EXCEPT !.pc = "rejected",
                                  !.error = "FileValidationError"]
            ELSE IF size > max_file_size_mb * BytesPerMb
            THEN [received EXCEPT !.pc = "rejected",
                                  !.error = "FileValidationError"]
            ELSE [received EXCEPT !.pc = "start"]]
    /\ UNCHANGED <<content, queue, published>>

\* one upload arrives at a store that is empty or holds d0
InitUploadCheck ==
    /\ \/ /\ content = [c \in ContentIds |-> NoDoc]
          /\ queue = {}
          /\ vectors = [c \in ContentIds |-> <<>>]
       \/ \E t \in Contents :
          LET doc == EarlierContent(t, TRUE) IN
          /\ content = [c \in ContentIds |-> IF c = "d0" THEN doc ELSE NoDoc]
          /\ queue = {}
          /\ vectors = [c \in ContentIds |->
                IF c = "d0"
                THEN [v \in {VectorId("d0", i) : i \in 0..(doc.total_chunks - 1)}
                        |-> [content_id |-> "d0", chunk_index |-> v[2]]]
                ELSE <<>>]
    /\ worker = [w \in Workers |-> IdleWorker]
    /\ published = [c \in ContentIds |-> <<>>]
    /\ crashes = 0
    /\ upserted = [c \in ContentIds |-> {}]
    /\ upload = [r \in UploadIds |->
                    IF r = "r1" THEN [IdleUpload EXCEPT !.pc = "validate"]
                    ELSE IdleUpload]
    /\ QuerySideIdle

NextUploadCheck ==
    \/ UploadValidate("r1")
        /\ UNCHANGED <<worker, vectors, crashes, upserted, query_side>>
    \/ UploadStep("r1")
        /\ UNCHANGED <<worker, vectors, crashes, upserted, query_side>>

SpecUploadCheck == InitUploadCheck /\ [][NextUploadCheck]_vars

\* the extension of a file name: what follows its last dot, none without a dot
ExtensionOf(filename) ==
    IF Len(filename) >= 2 THEN LowerType(filename[Len(filename)]) ELSE "none"

\* C27: an upload whose extension is not pdf, txt or md, or whose byte length
\* exceeds the maximum file size, is rejected with a file-validation error
\* and gets no further: it never saves a file, creates or changes a record,
\* or publishes a chunk job or an event.
C27_InvalidUploadRejected ==
    \A r \in UploadIds :
        (/\ upload[r].pc # "validate"
         /\ upload[r].filename # <<>>
         /\ \/ ExtensionOf(upload[r].filename) \notin AllowedTypes
            \/ upload[r].file_size > max_file_size_mb * BytesPerMb)
            => /\ upload[r].pc = "rejected"
               /\ upload[r].error = "FileValidationError"
               /\ ~upload[r].saved

(***************************************************************************)
(* publish_chunks message by message, next to the workers: the record has  *)
(* been inserted, every publish_chunk either reaches the exchange or       *)
(* raises QueueError, and the except clause of upload_content then sets    *)
(* the status failed while the jobs already published stay in the queue.   *)
(***************************************************************************)
\* await self.publish_chunk(chunk) for the next chunk of the list; after the
\* last one the processing event is sent and the upload is answered
PublishChunk(r) ==
    /\ upload[r].pc = "publish"
    /\ upload[r].sent < upload[r].chunks
    /\ queue' = queue \cup {[content_id |-> UploadContentId[r],
                             chunk_index |-> upload[r].sent]}
    /\ IF upload[r].sent + 1 = upload[r].chunks
       THEN /\ PublishOrFail(UploadContentId[r],
                             UploadEvent(upload[r].chunks))
            /\ upload' = [upload EXCEPT
                    ![r].pc = "done", ![r].sent = @ + 1, ![r].saved = FALSE,
                    ![r].response =
                        [content_id |-> UploadContentId[r],
                         is_duplicate |-> FALSE,
                         status |-> "processing",
                         total_chunks |-> upload[r].chunks]]
       ELSE /\ published' = published
            /\ upload' = [upload EXCEPT ![r].sent = @ + 1]
    /\ UNCHANGED content

\* update_one({content_id}, {$set: {status: failed}})
SetFailed(doc) ==
    IF doc.exists THEN [doc EXCEPT !.status = "failed"] ELSE doc

\* exchange.publish raises: publish_chunk and publish_chunks re-raise it as
\* QueueError, upload_content's except clause sets the status failed and
\* raises DocumentProcessingError
PublishRaises(r) ==
    /\ upload[r].pc = "publish"
    /\ upload[r].sent < upload[r].chunks
    /\ content' = [content EXCEPT ![UploadContentId[r]] = SetFailed(@)]
    /\ upload' = [upload EXCEPT ![r].pc = "failed",
                                ![r].error = "DocumentProcessingError"]
    /\ UNCHANGED <<queue, published>>

\* upload r1 has inserted the record of a document of one to MaxChunks
\* chunks and stands before publish_chunks
InitPublish ==
    /\ \E n \in 1..MaxChunks :
        /\ content = [c \in ContentIds |->
                        IF c = UploadContentId["r1"]
                        THEN NewContent("h1", Uploader["r1"], n) ELSE NoDoc]
        /\ upload = [r \in UploadIds |->
                        IF r = "r1"
                        THEN [IdleUpload EXCEPT !.pc = "publish",
                                                !.content_hash = "h1",
                                                !.chunks = n, !.chunked = TRUE,
                                                !.saved = TRUE]
                        ELSE IdleUpload]
    /\ queue = {}
    /\ worker = [w \in Workers |-> IdleWorker]
    /\ vectors = [c \in ContentIds |-> <<>>]
    /\ published = [c \in ContentIds |-> <<>>]
    /\ crashes = 0
    /\ upserted = [c \in ContentIds |-> {}]
    /\ QuerySideIdle

NextPublish ==
    \/ PublishChunk("r1") /\ UNCHANGED <<worker, vectors, crashes, upserted,
                                         query_side>>
    \/ PublishRaises("r1") /\ UNCHANGED <<worker, vectors, crashes, upserted,
                                          query_side>>
    \/ \E w \in Workers : WorkerStep(w) /\ UNCHANGED <<upload_vars, query_side>>
    \/ \E w \in Workers : Crash(w) /\ UNCHANGED <<upload_vars, query_side>>

SpecPublish == InitPublish /\ [][NextPublish]_vars

\* C33: a document whose status was set to failed by upload_content (the
\* upload failed after the record was persisted, for example because
\* publishing the chunk jobs failed partway) is never later set to completed
\* by a worker, under any delivery or re-delivery of the jobs that were
\* already published.
C33_FailedStaysFailed ==
    [][\A d \in ContentIds :
        (content[d].exists /\ content[d].status = "failed")
            => content'[d].status # "completed"]_vars

(***************************************************************************)
(* ResponseCache (services/rag-query/cache/redis_cache.py) over Redis keys *)
(* with a time to live.  A key whose expiry has passed is absent.          *)
(***************************************************************************)
frequency_threshold == 5
ttl == 3600
FrequencyTtl == 86400

MaxTicks == 2
MaxCount == 5
\* the clock advances by half a cache TTL, or to half a cache TTL short of
\* a counter's lifetime
TickSteps == {ttl \div 2, FrequencyTtl - (ttl \div 2)}

CounterAlive(k) ==
    /\ frequency[k].count > 0
    /\ frequency[k].expires = NoExpiry \/ now < frequency[k].expires

EntryAlive(k) ==
    /\ cache[k].exists
    /\ cache[k].expires = NoExpiry \/ now < cache[k].expires

\* redis_client.increment: INCR creates an absent key at 1 without expiry
\* and leaves the expiry of a present key alone
RedisIncrement(k) ==
    IF CounterAlive(k)
    THEN [frequency[k] EXCEPT !.count = @ + 1]
    ELSE [count |-> 1, expires |-> NoExpiry]

\* INCR, then EXPIRE 86400 only when the counter has just been created
increment_question_frequency(content_id, question) ==
    LET k == _generate_frequency_key(content_id, question)
        incremented == RedisIncrement(k)
    IN  IF incremented.count = 1
        THEN [incremented EXCEPT !.expires = now + FrequencyTtl]
        ELSE incremented

\* int(count) if count else 0
get_question_frequency(content_id, question) ==
    LET k == _generate_frequency_key(content_id, question)
    IN  IF CounterAlive(k) THEN frequency[k].count ELSE 0

should_use_cache(content_id, question) ==
    get_question_frequency(content_id, question) >= frequency_threshold

\* the cached record, or NoResult (None) below the threshold or on a miss
get_cached_response(content_id, question) ==
    LET k == _generate_cache_key(content_id, question)
    IN  IF ~should_use_cache(content_id, question) THEN NoResult
        ELSE IF EntryAlive(k)
             THEN [cached |-> TRUE, response |-> cache[k].response]
             ELSE NoResult

\* set_json(cache_key, cache_data, self.ttl) when the threshold is met,
\* nothing otherwise
cache_response(content_id, question, response) ==
    LET k == _generate_cache_key(content_id, question)
    IN  IF should_use_cache(content_id, question)
        THEN [cache EXCEPT ![k] = [exists |-> TRUE, response |-> response,
                                   expires |-> now + ttl]]
        ELSE cache

Answers == {<<"x">>, <<"y">>, <<"x", "SYSTEM:">>}
unsafe_patterns == {"You are an expert IB Chemistry tutor", "SYSTEM:",
                    "<|im_start|>", "<|im_end|>"}

\* False when the lowered response contains one of the lowered patterns
check_response_safety(response) ==
    \A i \in 1..Len(response) :
        Lower(response[i]) \notin {Lower(pattern) : pattern \in unsafe_patterns}

(***************************************************************************)
(* The cache as a component: its operations called in any order by any     *)
(* number of callers while the clock advances.                             *)
(***************************************************************************)
CacheIncrement(c, q) ==
    /\ get_question_frequency(c, q) < MaxCount
    /\ frequency' = [frequency EXCEPT ![_generate_frequency_key(c, q)] =
                        increment_question_frequency(c, q)]
    /\ UNCHANGED <<now, ticks, cache, last>>

CacheStore(c, q, response) ==
    /\ cache' = cache_response(c, q, response)
    /\ UNCHANGED <<now, ticks, frequency, last>>

CacheLookup(c, q) ==
    /\ last' = [last EXCEPT ![_generate_cache_key(c, q)] =
                    get_cached_response(c, q)]
    /\ UNCHANGED <<now, ticks, frequency, cache>>

Tick ==
    /\ ticks < MaxTicks
    /\ \E dt \in TickSteps : now' = now + dt
    /\ ticks' = ticks + 1
    /\ UNCHANGED <<frequency, cache, last>>

InitCache ==
    /\ content = [c \in ContentIds |-> NoDoc]
    /\ queue = {}
    /\ worker = [w \in Workers |-> IdleWorker]
    /\ vectors = [c \in ContentIds |-> <<>>]
    /\ published = [c \in ContentIds |-> <<>>]
    /\ crashes = 0
    /\ upserted = [c \in ContentIds |-> {}]
    /\ upload = [r \in UploadIds |-> IdleUpload]
    /\ QuerySideIdle

cache_frame == <<ingest_vars, upload_vars, query, asks, leaked, global_vars,
                rest_vars>>

NextCache ==
    \/ \E c \in CacheDocs, q \in Questions :
            CacheIncrement(c, q) /\ UNCHANGED cache_frame
    \/ \E c \in CacheDocs, q \in Questions, a \in Answers :
            CacheStore(c, q, a) /\ UNCHANGED cache_frame
    \/ \E c \in CacheDocs, q \in Questions :
            CacheLookup(c, q) /\ UNCHANGED cache_frame
    \/ Tick /\ UNCHANGED cache_frame

SpecCache == InitCache /\ [][NextCache]_vars

no_vectors_response == <<"no searchable content">>

\* the request is answered: ask_question_complete returns result['response']
\* and result['cached']
QueryReturn(result) ==
    LET k == _generate_cache_key(query.content_id, query.question) IN
    /\ asks' = [asks EXCEPT ![k] = @ + 1]
    /\ last' = [last EXCEPT ![k] = result]
    /\ query' = IdleQuery

\* a request arrives; validate_question accepts the question
QueryStart(c, q) ==
    /\ query.pc = "idle"
    /\ asks[_generate_cache_key(c, q)] <= frequency_threshold
    /\ query' = [IdleQuery EXCEPT !.pc = "check_cache", !.content_id = c,
                                  !.question = q]
    /\ UNCHANGED <<cache_vars, asks, last, leaked>>

\* cached_response = await self.cache.get_cached_response(...); a hit is
\* returned as it was stored
QueryCheckCache ==
    /\ query.pc = "check_cache"
    /\ LET cached_response ==
                get_cached_response(query.content_id, query.question) IN
        IF cached_response.cached
        THEN QueryReturn(cached_response)
        ELSE /\ query' = [query EXCEPT !.pc = "retrieve"]
             /\ UNCHANGED <<asks, last>>
    /\ UNCHANGED <<cache_vars, leaked>>

\* chunks = await self.retriever.retrieve(...); without chunks the canned
\* message is returned and nothing is generated
QueryRetrieve ==
    /\ query.pc = "retrieve"
    /\ IF DOMAIN vectors[query.content_id] = {}
       THEN QueryReturn([cached |-> FALSE, response |-> no_vectors_response])
       ELSE /\ query' = [query EXCEPT !.pc = "generate"]
            /\ UNCHANGED <<asks, last>>
    /\ UNCHANGED <<cache_vars, leaked>>

\* response_data = await self.llm_client.generate_completion(messages)
QueryGenerate ==
    /\ query.pc = "generate"
    /\ \E a \in Answers :
            query' = [query EXCEPT !.pc = "store", !.response_data = a]
    /\ UNCHANGED <<cache_vars, asks, last, leaked>>

\* if check_response_safety(content): await self.cache.cache_response(...);
\* return result with cached False
QueryStore ==
    /\ query.pc = "store"
    /\ LET k == _generate_cache_key(query.content_id, query.question) IN
        IF check_response_safety(query.response_data)
        THEN /\ cache' = cache_response(query.content_id, query.question,
                                        query.response_data)
             /\ leaked' = leaked
        ELSE /\ cache' = cache
             /\ leaked' = [leaked EXCEPT ![k] = TRUE]
    /\ QueryReturn([cached |-> FALSE, response |-> query.response_data])
    /\ UNCHANGED <<now, ticks, frequency>>

\* d0 is vectorized, d1 has no vector yet; Redis is fresh
InitQuery ==
    /\ content = [c \in ContentIds |->
                    IF c \in CacheDocs
                    THEN [NewContent(c, "u1", 1) EXCEPT
                            !.status = IF c = "d0" THEN "completed"
                                       ELSE "processing",
                            !.processed_chunks = IF c = "d0" THEN 1 ELSE 0]
                    ELSE NoDoc]
    /\ queue = ChunkMessages("d1", 1)
    /\ worker = [w \in Workers |-> IdleWorker]
    /\ vectors = [c \in ContentIds |->
                    IF c = "d0"
                    THEN [v \in {VectorId("d0", 0)} |->
                            [content_id |-> "d0", chunk_index |-> 0]]
                    ELSE <<>>]
    /\ published = [c \in ContentIds |-> <<>>]
    /\ crashes = 0
    /\ upserted = [c \in ContentIds |-> IF c = "d0" THEN {0} ELSE {}]
    /\ upload = [r \in UploadIds |-> IdleUpload]
    /\ QuerySideIdle

query_frame == <<ingest_vars, upload_vars, global_vars, rest_vars>>

NextQuery ==
    \/ \E c \in CacheDocs, q \in Questions :
            QueryStart(c, q) /\ UNCHANGED query_frame
    \/ QueryCheckCache /\ UNCHANGED query_frame
    \/ QueryRetrieve /\ UNCHANGED query_frame
    \/ QueryGenerate /\ UNCHANGED query_frame
    \/ QueryStore /\ UNCHANGED query_frame

SpecQuery == InitQuery /\ [][NextQuery]_vars

\* C7: asked threshold + 1 times in succession about a vectorized document,
\* with answers free of leak markers, a question is answered uncached and
\* leaves no cache entry on asks 1 .. threshold - 1, is answered uncached and
\* cached on ask threshold, and is answered from that entry on the next ask.
C7_CachedFromThresholdAsk ==
    \A k \in CacheKeys :
        (/\ query.pc = "idle"
         /\ DOMAIN vectors[k[1]] # {}
         /\ ~leaked[k]) =>
            /\ asks[k] \in 1..(frequency_threshold - 1) =>
                    ~last[k].cached /\ ~EntryAlive(k)
            /\ asks[k] = frequency_threshold =>
                    /\ ~last[k].cached
                    /\ EntryAlive(k)
                    /\ cache[k].response = last[k].response
            /\ asks[k] = frequency_threshold + 1 =>
                    /\ last[k].cached
                    /\ last[k].response = cache[k].response

(***************************************************************************)
(* global_chat_complete (services/rag-query/main.py) with the access rules *)
(* of access_control.py.                                                   *)
(***************************************************************************)
Users == {"u1", "u2", "u3"}
Role == [u1 |-> "teacher", u2 |-> "student", u3 |-> "student"]
MaxSelected == 2
Selections == UNION {[1..n -> ContentIds] : n \in 0..MaxSelected}

Range(seq) == {seq[i] : i \in 1..Len(seq)}

\* db.content.find of get_user_accessible_docs, as the set of ids it returns.
\* original_uploader_id is the user_id the record was created with, and no
\* code path writes shared_with, so that clause matches nothing.
get_user_accessible_docs(user_id, role) ==
    LET teacher_ids == {u \in Users : Role[u] = "teacher"} IN
    IF role = "teacher"
    THEN {d \in ContentIds :
            /\ content[d].exists
            /\ \/ content[d].status = "completed"
               \/ /\ content[d].user_id = user_id
                  /\ content[d].status \in {"processing", "pending"}}
    ELSE {d \in ContentIds :
            /\ content[d].exists
            /\ \/ content[d].user_id = user_id
               \/ user_id \in Range(content[d].upload_history)
               \/ /\ content[d].user_id \in teacher_ids
                  /\ content[d].status = "completed"}

\* [doc_id for doc_id in doc_ids if doc_id in accessible]
filter_accessible_docs(user_id, doc_ids, role) ==
    IF doc_ids = <<>> THEN <<>>
    ELSE LET accessible == get_user_accessible_docs(user_id, role)
             Accessible(d) == d \in accessible
         IN  SelectSeq(doc_ids, Accessible)

\* db.content.find({content_id: {$in: doc_ids}, status: completed}), as a set
get_completed_docs_for_search(doc_ids) ==
    {d \in doc_ids : content[d].exists /\ content[d].status = "completed"}

\* the namespace RAGPipeline.process_query retrieves from: none on a cache
\* hit, the content id otherwise
ProcessQueryNamespaces(content_id, question) ==
    IF get_cached_response(content_id, question).cached THEN {}
    ELSE {content_id}

\* a request arrives (the previous one, if any, has been answered) and the
\* two filters run
GlobalFilter(user_id, selected_ids) ==
    /\ globalq.pc \in {"idle", "done"}
    /\ Len(questions) < MaxLog
    /\ UNCHANGED questions
    /\ LET role == Role[user_id]
           accessible_doc_ids ==
                IF selected_ids # <<>>
                THEN Range(filter_accessible_docs(user_id, selected_ids, role))
                ELSE get_user_accessible_docs(user_id, role)
       IN globalq' = [IdleGlobal EXCEPT
                !.pc = "route", !.user_id = user_id,
                !.selected_ids = selected_ids,
                !.accessible_doc_ids = accessible_doc_ids,
                !.doc_ids = get_completed_docs_for_search(accessible_doc_ids)]

\* if not accessible_doc_ids: raise HTTPException(404)
GlobalNotFound ==
    /\ globalq.pc = "route"
    /\ globalq.accessible_doc_ids = {}
    /\ globalq' = [globalq EXCEPT !.pc = "done", !.outcome = "404"]
    /\ UNCHANGED questions

\* if not doc_ids: the still-processing message, nothing searched
GlobalNoneCompleted ==
    /\ globalq.pc = "route"
    /\ globalq.accessible_doc_ids # {}
    /\ globalq.doc_ids = {}
    /\ globalq' = [globalq EXCEPT !.pc = "done", !.outcome = "processing"]
    /\ UNCHANGED questions

\* if selected_ids: single_cid = selected_ids[0]; process_query(single_cid);
\* the QuestionResponse is returned without an insert into db.questions
GlobalSelected ==
    /\ globalq.pc = "route"
    /\ globalq.accessible_doc_ids # {}
    /\ globalq.doc_ids # {}
    /\ globalq.selected_ids # <<>>
    /\ \E q \in Questions :
        globalq' = [globalq EXCEPT !.pc = "done", !.outcome = "answer",
            !.delegated = TRUE,
            !.queried = ProcessQueryNamespaces(globalq.selected_ids[1], q)]
    /\ UNCHANGED questions

\* GlobalQueryService.run without selection: search_global queries the
\* namespace of every id in doc_ids (and the fallback retrieves per id); the
\* answer is persisted with is_global and without a content_id
GlobalSearch ==
    /\ globalq.pc = "route"
    /\ globalq.accessible_doc_ids # {}
    /\ globalq.doc_ids # {}
    /\ globalq.selected_ids = <<>>
    /\ globalq' = [globalq EXCEPT !.pc = "done", !.outcome = "answer",
                                  !.queried = globalq.doc_ids]
    /\ \E q \in Questions :
        questions' = Append(questions,
            [content_id |-> "global", question_text |-> q,
             answer_text |-> <<"x">>, cached |-> FALSE,
             tokens_used |-> FALSE])

\* a document uploaded by some user, still processing or completed
StoredContent(c, user, done) ==
    [NewContent(c, user, 1) EXCEPT
        !.status = IF done THEN "completed" ELSE "processing",
        !.processed_chunks = IF done THEN 1 ELSE 0]

InitGlobal ==
    /\ \E owner \in [ContentIds -> Users], done \in [ContentIds -> BOOLEAN],
          stored \in SUBSET ContentIds :
        /\ content = [c \in ContentIds |->
                        IF c \in stored
                        THEN StoredContent(c, owner[c], done[c]) ELSE NoDoc]
        /\ queue = UNION {ChunkMessages(c, 1) : c \in {d \in stored : ~done[d]}}
        /\ vectors = [c \in ContentIds |->
                        IF c \in stored /\ done[c]
                        THEN [v \in {VectorId(c, 0)} |->
                                [content_id |-> c, chunk_index |-> 0]]
                        ELSE <<>>]
        /\ upserted = [c \in ContentIds |->
                        IF c \in stored /\ done[c] THEN {0} ELSE {}]
    /\ worker = [w \in Workers |-> IdleWorker]
    /\ published = [c \in ContentIds |-> <<>>]
    /\ crashes = 0
    /\ upload = [r \in UploadIds |-> IdleUpload]
    /\ QuerySideIdle

global_frame == <<ingest_vars, upload_vars, cache_vars, query_vars,
                 broker_vars, search_vars, ask, access_vars, side_vars>>

NextGlobal ==
    \/ \E u \in Users, sel \in Selections :
            GlobalFilter(u, sel) /\ UNCHANGED global_frame
    \/ GlobalNotFound /\ UNCHANGED global_frame
    \/ GlobalNoneCompleted /\ UNCHANGED global_frame
    \/ GlobalSelected /\ UNCHANGED global_frame
    \/ GlobalSearch /\ UNCHANGED global_frame

SpecGlobal == InitGlobal /\ [][NextGlobal]_vars

\* C8: every namespace a global query retrieves from belongs to a document
\* that is accessible to the caller and completed; a selected id that is not
\* accessible, or still processing, is never queried, wherever it stands in
\* selected_doc_ids.
C8_GlobalQueriesOnlyAccessibleCompleted ==
    globalq.pc = "done" =>
        \A d \in globalq.queried :
            /\ d \in get_user_accessible_docs(globalq.user_id,
                                              Role[globalq.user_id])
            /\ content[d].exists
            /\ content[d].status = "completed"

\* C32: a global query is delegated to the per-document flow if and only if
\* exactly one document id was explicitly selected; with two or more selected
\* ids it retrieves from every accessible completed selected document, and
\* with none from every accessible completed document.
C32_DelegatedIffOneSelected ==
    (globalq.pc = "done" /\ globalq.outcome = "answer") =>
        LET role == Role[globalq.user_id]
            selected == Range(globalq.selected_ids)
        IN  /\ globalq.delegated <=> Cardinality(selected) = 1
            /\ Cardinality(selected) >= 2 =>
                    globalq.queried =
                        get_completed_docs_for_search(
                            Range(filter_accessible_docs(globalq.user_id,
                                    globalq.selected_ids, role)))
            /\ selected = {} =>
                    globalq.queried =
                        get_completed_docs_for_search(
                            get_user_accessible_docs(globalq.user_id, role))

\* C21: every request that returns an answer through the streaming, the
\* complete or the global endpoint (a global query delegated to the
\* per-document flow included) appends exactly one question-log entry in the
\* course of the request, and the entries already in the log stay as they are.
C21_OneLogEntryPerAnswer ==
    [][/\ (/\ globalq.pc = "route"
           /\ globalq'.pc = "done"
           /\ globalq'.outcome = "answer")
            => questions' # questions
       /\ (/\ ask.pc = "log"
           /\ ask'.pc = "done")
            => questions' # questions
       /\ Len(questions') \in {Len(questions), Len(questions) + 1}
       /\ SubSeq(questions', 1, Len(questions)) = questions]_vars

(***************************************************************************)
(* Failure of a chunk job: the handler re-raises inside                    *)
(* `async with message.process()`, which rejects the delivery without      *)
(* requeue; the broker dead-letters a rejected message through the dead    *)
(* letter exchange of its queue and discards it when the queue has none.   *)
(***************************************************************************)
\* the x-dead-letter-exchange argument chunks.processing is declared with:
\* declare_queue('chunks.processing', durable=True) passes no arguments
DeadLetterExchange == "none"

\* where the broker puts a message rejected with requeue=False
DeadLetter(dlq, m) ==
    IF DeadLetterExchange = "none" THEN dlq ELSE dlq \cup {m}

\* generate_embedding (after its three attempts) or upsert_vector raises:
\* the except branch logs and re-raises, the delivery is rejected
Fail(w) ==
    /\ worker[w].pc = "upsert"
    /\ rejected' = rejected \cup {worker[w].msg}
    /\ failed' = DeadLetter(failed, worker[w].msg)
    /\ worker' = [worker EXCEPT ![w] = IdleWorker]
    /\ UNCHANGED <<content, queue, vectors, published, crashes, upserted>>

InitFailure ==
    /\ \E n0 \in 1..MaxChunks :
        /\ content = [c \in ContentIds |->
                        IF c = "d0" THEN NewContent("h0", "u1", n0) ELSE NoDoc]
        /\ queue = ChunkMessages("d0", n0)
    /\ worker = [w \in Workers |-> IdleWorker]
    /\ vectors = [c \in ContentIds |-> <<>>]
    /\ published = [c \in ContentIds |-> <<>>]
    /\ crashes = 0
    /\ upserted = [c \in ContentIds |-> {}]
    /\ upload = [r \in UploadIds |-> IdleUpload]
    /\ QuerySideIdle

NextFailure ==
    \/ \E w \in Workers : WorkerStep(w) /\ UNCHANGED <<upload_vars, query_side>>
    \/ \E w \in Workers :
            Fail(w) /\ UNCHANGED <<upload_vars, cache_vars, query_vars,
                                   global_vars, search_vars, ask_vars,
                                   access_vars, side_vars>>

SpecFailure == InitFailure /\ [][NextFailure]_vars

\* C11: a chunk job whose embedding or upsert fails ends up in chunks.failed,
\* is not put back on chunks.processing, and that delivery changes neither
\* processed_chunks nor the status of the document.
C11_FailedJobDeadLettered ==
    [][\A m \in rejected' \ rejected :
            /\ m \in failed'
            /\ m \notin queue'
            /\ content' = content]_vars

(***************************************************************************)
(* Progress events of one document whose chunk count exceeds the period of *)
(* the periodic progress event: no crash, no re-delivery, two consumers.   *)
(***************************************************************************)
ProgressChunks == 6

InitProgress ==
    /\ content = [c \in ContentIds |->
                    IF c = "d0" THEN NewContent("h0", "u1", ProgressChunks)
                    ELSE NoDoc]
    /\ queue = ChunkMessages("d0", ProgressChunks)
    /\ worker = [w \in Workers |-> IdleWorker]
    /\ vectors = [c \in ContentIds |-> <<>>]
    /\ published = [c \in ContentIds |-> <<>>]
    /\ crashes = 0
    /\ upserted = [c \in ContentIds |-> {}]
    /\ upload = [r \in UploadIds |-> IdleUpload]
    /\ QuerySideIdle

NextProgress ==
    \E w \in Workers : WorkerStep(w) /\ UNCHANGED <<upload_vars, query_side>>

SpecProgress == InitProgress /\ [][NextProgress]_vars

max_per_doc == 2
max_total == 8
top_k == 10

MaxDocs == 5
MaxResults == 4
\* the namespaces a global query searches, in the order of doc_ids
SearchDocs == [i \in 1..MaxDocs |-> i]
DirectDocs == {1, 2, 3}

\* the scores of the chunks of a namespace, best first: one strong match
\* and four weaker ones, fewer chunks, or none
Profiles == {<<3, 2, 2, 2, 2>>, <<3, 2, 2, 1, 1>>, <<3, 1, 1, 1, 1>>,
             <<3, 2>>, <<>>}
StrongAndWeak == {<<3, 2, 2, 2, 2>>, <<3, 2, 2, 1, 1>>, <<3, 1, 1, 1, 1>>}

Min(a, b) == IF a < b THEN a ELSE b

\* index.query(vector, top_k=k, namespace=content_id): the k best matches
NamespaceQuery(namespaces, content_id, k) ==
    [i \in 1..Min(k, Len(namespaces[content_id])) |->
        [content_id |-> content_id, rank |-> i,
         score |-> namespaces[content_id][i]]]

\* for content_id in content_ids: all_results.append(match)
RECURSIVE AllResults(_, _, _)
AllResults(namespaces, content_ids, k) ==
    IF content_ids = <<>> THEN <<>>
    ELSE NamespaceQuery(namespaces, Head(content_ids), k)
         \o AllResults(namespaces, Tail(content_ids), k)

\* insertion of x behind every element that scores at least as much
RECURSIVE InsertByScore(_, _)
InsertByScore(sorted, x) ==
    IF sorted = <<>> THEN <<x>>
    ELSE IF Head(sorted).score >= x.score
         THEN <<Head(sorted)>> \o InsertByScore(Tail(sorted), x)
         ELSE <<x>> \o sorted

\* all_results.sort(key=score, reverse=True): stable, best first
RECURSIVE SortByScore(_)
SortByScore(seq) ==
    IF seq = <<>> THEN <<>>
    ELSE InsertByScore(SortByScore(SubSeq(seq, 1, Len(seq) - 1)),
                       seq[Len(seq)])

\* PineconeRetriever.search_global
search_global(namespaces, content_ids, k) ==
    LET all_results ==
            AllResults(namespaces, content_ids, (k \div Len(content_ids)) + 1)
        sorted == SortByScore(all_results)
    IN  SubSeq(sorted, 1, Min(k, Len(sorted)))

\* by_doc.setdefault(doc_id, []): the documents by first appearance
RECURSIVE GroupOrder(_, _)
GroupOrder(results, seen) ==
    IF results = <<>> THEN <<>>
    ELSE IF Head(results).content_id \in seen
         THEN GroupOrder(Tail(results), seen)
         ELSE <<Head(results).content_id>>
              \o GroupOrder(Tail(results),
                            seen \cup {Head(results).content_id})

\* by_doc[doc_id].append(match)
GroupByDoc(results) ==
    [d \in {results[i].content_id : i \in 1..Len(results)} |->
        SelectSeq(results, LAMBDA m : m.content_id = d)]

\* len([m for m in diverse if m.metadata.get("content_id") == doc_id])
DocCount(diverse, d) == Len(SelectSeq(diverse, LAMBDA m : m.content_id = d))

\* a variant of the for loop that never looks at the per-document count
RECURSIVE ForEachDocNoQuota(_, _, _, _, _, _)
ForEachDocNoQuota(order, i, by_doc, diverse, per_doc, total) ==
    IF i > Len(order) THEN [by_doc |-> by_doc, diverse |-> diverse]
    ELSE LET d == order[i]
         IN  IF by_doc[d] = <<>>
             THEN ForEachDocNoQuota(order, i + 1, by_doc, diverse,
                                    per_doc, total)
             ELSE LET dv == Append(diverse, Head(by_doc[d]))
                      bd == [by_doc EXCEPT ![d] = Tail(@)]
                  IN  IF Len(dv) >= total
                      THEN [by_doc |-> bd, diverse |-> dv]
                      ELSE ForEachDocNoQuota(order, i + 1, bd, dv,
                                             per_doc, total)

\* for doc_id, matches in list(by_doc.items()): one pass of the round-robin
RECURSIVE ForEachDoc(_, _, _, _, _, _)
ForEachDoc(order, i, by_doc, diverse, per_doc, total) ==
    IF i > Len(order) THEN [by_doc |-> by_doc, diverse |-> diverse]
    ELSE LET d == order[i]
         IN  IF by_doc[d] = <<>>
             THEN ForEachDoc(order, i + 1, by_doc, diverse, per_doc, total)
             ELSE IF DocCount(diverse, d) < per_doc
                  THEN LET dv == Append(diverse, Head(by_doc[d]))
                           bd == [by_doc EXCEPT ![d] = Tail(@)]
                       IN  IF Len(dv) >= total
                           THEN [by_doc |-> bd, diverse |-> dv]
                           ELSE ForEachDoc(order, i + 1, bd, dv,
                                           per_doc, total)
                  ELSE ForEachDoc(order, i + 1, by_doc, diverse,
                                  per_doc, total)

\* while len(diverse) < max_total and any(by_doc.values())
WhileCondition(by_doc, diverse, total) ==
    /\ Len(diverse) < total
    /\ \E d \in DOMAIN by_doc : by_doc[d] # <<>>

SafetyBreak == 10

\* the while loop of diversify_search_results, left after SafetyBreak rounds
RECURSIVE DiversifyRounds(_, _, _, _, _, _)
DiversifyRounds(order, by_doc, diverse, round_num, per_doc, total) ==
    IF ~WhileCondition(by_doc, diverse, total) THEN diverse
    ELSE LET r == ForEachDoc(order, 1, by_doc, diverse, per_doc, total)
         IN  IF round_num + 1 > SafetyBreak THEN r.diverse
             ELSE DiversifyRounds(order, r.by_doc, r.diverse, round_num + 1,
                                  per_doc, total)

\* main.diversify_search_results
diversify_search_results(results, per_doc, total) ==
    LET diverse == DiversifyRounds(GroupOrder(results, {}),
                                   GroupByDoc(results), <<>>, 0,
                                   per_doc, total)
    IN  SubSeq(diverse, 1, Min(total, Len(diverse)))

\* retriever.search_global(query_vector, content_ids=doc_ids, top_k=10)
SearchGlobal ==
    /\ gsearch.pc = "search"
    /\ gsearch' = [gsearch EXCEPT
            !.pc = "diversify",
            !.results = search_global(gsearch.namespaces, gsearch.doc_ids,
                                      top_k)]

\* except Exception: results = []
SearchGlobalFails ==
    /\ gsearch.pc = "search"
    /\ gsearch' = [gsearch EXCEPT !.pc = "diversify", !.results = <<>>]

\* _diversify: the grouping of the results by document
DiversifyGroup ==
    /\ gsearch.pc = "diversify"
    /\ gsearch' = [gsearch EXCEPT
            !.pc = "loop",
            !.order = GroupOrder(gsearch.results, {}),
            !.by_doc = GroupByDoc(gsearch.results),
            !.diverse = <<>>]

\* _diversify: one iteration of the while loop
DiversifyRound ==
    /\ gsearch.pc = "loop"
    /\ WhileCondition(gsearch.by_doc, gsearch.diverse, max_total)
    /\ LET r == ForEachDoc(gsearch.order, 1, gsearch.by_doc, gsearch.diverse,
                           max_per_doc, max_total)
       IN  gsearch' = [gsearch EXCEPT !.by_doc = r.by_doc,
                                      !.diverse = r.diverse]

\* _diversify: return diverse[:max_total]; an empty result of the first
\* retrieval sends run to the per-document fallback
DiversifyReturn ==
    /\ gsearch.pc = "loop"
    /\ ~WhileCondition(gsearch.by_doc, gsearch.diverse, max_total)
    /\ LET returned == SubSeq(gsearch.diverse, 1,
                              Min(max_total, Len(gsearch.diverse)))
       IN  gsearch' = [gsearch EXCEPT
               !.diverse = returned,
               !.pc = IF returned = <<>> /\ gsearch.doc_ids # <<>>
                         /\ ~gsearch.fallback
                      THEN "fallback" ELSE "done"]

\* run, step 5: retriever.retrieve(content_id=cid, top_k=2) for each document
Fallback ==
    /\ gsearch.pc = "fallback"
    /\ gsearch' = [gsearch EXCEPT
            !.pc = "diversify",
            !.fallback = TRUE,
            !.results = AllResults(gsearch.namespaces, gsearch.doc_ids, 2)]

\* the result lists handed to the diversification directly: chunks of up to
\* three documents in any interleaving
RankIn(docs, i) ==
    Cardinality({j \in 1..i : docs[j] = docs[i]})

DirectResults ==
    {[i \in 1..Len(docs) |-> [content_id |-> docs[i],
                              rank |-> RankIn(docs, i), score |-> 1]] :
        docs \in UNION {[1..k -> DirectDocs] : k \in 0..MaxResults}}

InitDiversify ==
    /\ \/ \E n \in 2..MaxDocs :
            \E ns \in [{SearchDocs[i] : i \in 1..n} -> Profiles] :
                gsearch = [IdleSearch EXCEPT
                    !.pc = "search",
                    !.doc_ids = SubSeq(SearchDocs, 1, n),
                    !.namespaces = ns]
       \/ \E results \in DirectResults :
            gsearch = [IdleSearch EXCEPT !.pc = "diversify",
                                         !.results = results]
    /\ content = [c \in ContentIds |-> NoDoc]
    /\ queue = {}
    /\ worker = [w \in Workers |-> IdleWorker]
    /\ vectors = [c \in ContentIds |-> <<>>]
    /\ published = [c \in ContentIds |-> <<>>]
    /\ crashes = 0
    /\ upserted = [c \in ContentIds |-> {}]
    /\ upload = [r \in UploadIds |-> IdleUpload]
    /\ QueryIdle
    /\ BrokerIdle
    /\ AskIdle
    /\ OthersIdle
    /\ call = NoCall

diversify_frame == <<ingest_vars, upload_vars, cache_vars, query_vars,
                     global_vars, broker_vars, ask_vars, access_vars,
                     side_vars>>

NextDiversify ==
    \/ SearchGlobal /\ UNCHANGED diversify_frame
    \/ SearchGlobalFails /\ UNCHANGED diversify_frame
    \/ DiversifyGroup /\ UNCHANGED diversify_frame
    \/ DiversifyRound /\ UNCHANGED diversify_frame
    \/ DiversifyReturn /\ UNCHANGED diversify_frame
    \/ Fallback /\ UNCHANGED diversify_frame

SpecDiversify == InitDiversify /\ [][NextDiversify]_vars

\* run is straight-line code around its awaits and _diversify is a
\* synchronous loop: whatever step is possible is eventually taken
SpecDiversifyFair ==
    /\ SpecDiversify
    /\ WF_vars(DiversifyRound /\ UNCHANGED diversify_frame)
    /\ WF_vars(DiversifyReturn /\ UNCHANGED diversify_frame)

\* C30: the round-robin diversification terminates on every finite list of
\* results, also when a document has matches left after it has contributed
\* max_per_doc chunks while fewer than max_total chunks are selected.
C30_DiversifyTerminates ==
    (gsearch.pc = "loop") ~> (gsearch.pc # "loop")

\* the chunks of a list, and the number of positions holding chunk m
Chunks(seq) == {seq[i] : i \in 1..Len(seq)}
Occurrences(seq, m) == Cardinality({i \in 1..Len(seq) : seq[i] = m})

\* at most max_total chunks, at most max_per_doc of a document, only chunks
\* of the input, each once
WithinLimits(diverse, results) ==
    /\ Len(diverse) <= max_total
    /\ \A m \in Chunks(diverse) :
        /\ DocCount(diverse, m.content_id) <= max_per_doc
        /\ m \in Chunks(results)
        /\ Occurrences(diverse, m) = 1

\* C13: for every list of retrieved chunks, the diversified result (of
\* GlobalQueryService._diversify at each point of its loop and on return,
\* and of main.diversify_search_results) holds at most max_total = 8 chunks,
\* at most max_per_doc = 2 of any document, and only chunks of the input,
\* each at most once.
C13_DiversifiedWithinLimits ==
    /\ gsearch.pc \in {"loop", "done", "fallback"}
        => WithinLimits(gsearch.diverse, gsearch.results)
    /\ gsearch.pc = "diversify"
        => WithinLimits(diversify_search_results(gsearch.results,
                                                 max_per_doc, max_total),
                        gsearch.results)

\* the diversification returned max_total chunks and left chunks behind, of a
\* document at its quota and of a document the total cut off
C13_Witness ==
    /\ gsearch.pc = "done"
    /\ Len(gsearch.diverse) = max_total
    /\ \E d \in DOMAIN gsearch.by_doc :
        /\ gsearch.by_doc[d] # <<>>
        /\ DocCount(gsearch.diverse, d) = max_per_doc
    /\ \E d \in DOMAIN gsearch.by_doc :
        /\ gsearch.by_doc[d] # <<>>
        /\ DocCount(gsearch.diverse, d) < max_per_doc

\* four documents to search, each namespace holding one strongly matching
\* chunk and four weaker ones
FourStrongAndWeak ==
    /\ Len(gsearch.doc_ids) = 4
    /\ \A i \in 1..4 : gsearch.namespaces[gsearch.doc_ids[i]] \in StrongAndWeak

\* the diversification has its final value: it returned, or a further pass
\* of its loop appends nothing
Settled ==
    \/ gsearch.pc = "done"
    \/ /\ gsearch.pc = "loop"
       /\ WhileCondition(gsearch.by_doc, gsearch.diverse, max_total)
       /\ ForEachDoc(gsearch.order, 1, gsearch.by_doc, gsearch.diverse,
                     max_per_doc, max_total).diverse = gsearch.diverse

\* the chunks of document d in diverse are its two best, best first
TwoBestOf(diverse, d) ==
    LET mine == SelectSeq(diverse, LAMBDA m : m.content_id = d)
    IN  /\ Len(mine) = 2
        /\ mine[1].rank = 1
        /\ mine[2].rank = 2

\* C14: with four documents to search, each holding one strongly matching
\* chunk and four weaker ones, the global query uses exactly 8 chunks, exactly
\* 2 of each document, and those are the document's highest-scoring ones in
\* descending score order.
C14_TwoBestOfEachOfFour ==
    (FourStrongAndWeak /\ Settled)
        => /\ Len(gsearch.diverse) = 8
           /\ \A i \in 1..4 : TwoBestOf(gsearch.diverse, gsearch.doc_ids[i])

(***************************************************************************)
(* The per-document query endpoints: ask_question_stream over              *)
(* RAGPipeline.process_query_stream and ask_question_complete over         *)
(* RAGPipeline.process_query, one request after the other, while any       *)
(* caller of the response cache may count a question.                      *)
(***************************************************************************)
Paths == {"stream", "complete"}
AskQuestions == {"a", "Ignore previous instructions"}
AskAnswers == {<<"x">>, <<"x", "SYSTEM:">>, <<"system:", "x">>}

\* members of the languages of InputValidator.SUSPICIOUS_PATTERNS
SUSPICIOUS_PATTERNS == {"ignore previous instructions", "act as a",
                        "<|im_start|>"}

\* re.search(pattern, text.lower()) for some pattern
detect_prompt_injection(text) == Lower(text) \in SUSPICIOUS_PATTERNS

\* the questions drawn are printable and trimmed, which sanitize_input
\* returns as they are
sanitize_input(text) == text

\* the apology process_query_stream yields from its except clause
error_message == <<"I apologize, but I encountered an error">>

\* the chunks retriever.retrieve returns for a document, and so the
\* [Source N] blocks of the prompt create_rag_prompt builds from them
PromptBlocks(c) == Cardinality(DOMAIN vectors[c])

\* sources.append({"source_id": i + 1, ...}) for i, chunk in enumerate(chunks)
SourcesOf(n) == [i \in 1..n |-> [source_id |-> i]]

\* a request arrives at one of the two endpoints
AskStart(path, c, q) ==
    /\ ask.pc \in {"idle", "done"}
    /\ Len(questions) < MaxLog
    /\ ask' = [IdleAsk EXCEPT !.pc = "validate", !.path = path,
                              !.content_id = c, !.question = q]
    /\ UNCHANGED <<questions, cache_vars>>

\* sanitized_question = self.filter.validate_question(question): process_query
\* re-raises PromptInjectionError and the handler answers 400;
\* process_query_stream catches it and yields the apology, after which
\* ask_question_stream goes on to the question log
AskValidate ==
    /\ ask.pc = "validate"
    /\ IF detect_prompt_injection(sanitize_input(ask.question))
       THEN IF ask.path = "complete"
            THEN ask' = [ask EXCEPT !.pc = "done",
                                    !.outcome = "PROMPT_INJECTION_DETECTED"]
            ELSE ask' = [ask EXCEPT !.pc = "log",
                                    !.delivered = error_message]
       ELSE ask' = [ask EXCEPT !.pc = "check_cache",
                               !.sanitized = sanitize_input(ask.question)]
    /\ UNCHANGED <<questions, cache_vars>>

\* cached_response = await self.cache.get_cached_response(...): a hit is
\* returned (streamed) as it was stored, without sources
AskCheckCache ==
    /\ ask.pc = "check_cache"
    /\ LET cached_response ==
                get_cached_response(ask.content_id, ask.sanitized) IN
        IF cached_response.cached
        THEN ask' = [ask EXCEPT !.pc = "log", !.cache_read = TRUE,
                                !.delivered = cached_response.response,
                                !.cached = ask.path = "complete",
                                !.sources = <<>>]
        ELSE ask' = [ask EXCEPT !.pc = "retrieve", !.cache_read = TRUE]
    /\ UNCHANGED <<questions, cache_vars>>

\* generate_embedding, then retriever.retrieve; without chunks the canned
\* message is the answer
AskRetrieve ==
    /\ ask.pc = "retrieve"
    /\ IF PromptBlocks(ask.content_id) = 0
       THEN ask' = [ask EXCEPT !.pc = "log", !.embedded = TRUE,
                               !.delivered = no_vectors_response]
       ELSE ask' = [ask EXCEPT !.pc = "generate", !.embedded = TRUE]
    /\ UNCHANGED <<questions, cache_vars>>

\* generate_completion / generate_completion_stream; the streaming path
\* yields every chunk of the answer as it arrives
AskGenerate ==
    /\ ask.pc = "generate"
    /\ \E a \in AskAnswers :
        ask' = [ask EXCEPT
            !.pc = "store", !.generated = TRUE, !.response_text = a,
            !.delivered = IF ask.path = "stream" THEN a ELSE <<>>,
            !.sources = IF ask.path = "complete"
                        THEN SourcesOf(PromptBlocks(ask.content_id))
                        ELSE <<>>]
    /\ UNCHANGED <<questions, cache_vars>>

\* a variant that stores the answer whatever it contains
AskStoreUnchecked ==
    /\ ask.pc = "store"
    /\ cache' = cache_response(ask.content_id, ask.sanitized,
                               ask.response_text)
    /\ ask' = [ask EXCEPT !.pc = "log", !.delivered = ask.response_text,
                          !.cache_written = cache' # cache]
    /\ UNCHANGED <<now, ticks, frequency, questions>>

\* if check_response_safety(response): await self.cache.cache_response(...);
\* the complete path then returns the result
AskStore ==
    /\ ask.pc = "store"
    /\ cache' = IF check_response_safety(ask.response_text)
                THEN cache_response(ask.content_id, ask.sanitized,
                                    ask.response_text)
                ELSE cache
    /\ ask' = [ask EXCEPT !.pc = "log", !.delivered = ask.response_text,
                          !.cache_written = cache' # cache]
    /\ UNCHANGED <<now, ticks, frequency, questions>>

\* await db.questions.insert_one(question_doc); the complete endpoint records
\* result['cached'] and the token usage, the streaming one cached False
AskLog ==
    /\ ask.pc = "log"
    /\ questions' = Append(questions,
            [content_id |-> ask.content_id, question_text |-> ask.question,
             answer_text |-> ask.delivered, cached |-> ask.cached,
             tokens_used |-> ask.path = "complete"])
    /\ ask' = [ask EXCEPT !.pc = "done", !.outcome = "ok"]
    /\ UNCHANGED cache_vars

ask_frame == <<ingest_vars, upload_vars, query_vars, global_vars,
               broker_vars, search_vars, access_vars, side_vars>>

NextAsk ==
    \/ \E path \in Paths, c \in CacheDocs, q \in AskQuestions :
            AskStart(path, c, q) /\ UNCHANGED ask_frame
    \/ AskValidate /\ UNCHANGED ask_frame
    \/ AskCheckCache /\ UNCHANGED ask_frame
    \/ AskRetrieve /\ UNCHANGED ask_frame
    \/ AskGenerate /\ UNCHANGED ask_frame
    \/ AskStore /\ UNCHANGED ask_frame
    \/ AskLog /\ UNCHANGED ask_frame
    \/ \E q \in Questions :
            CacheIncrement("d0", q)
            /\ UNCHANGED <<ingest_vars, upload_vars, query, asks, leaked,
                           global_vars, rest_vars>>

SpecAsk == InitQuery /\ [][NextAsk]_vars

\* C15: an answer that contains a leak marker is never written to the cache,
\* whatever the question's frequency, on the streaming and on the complete
\* path, and the answer is still delivered to the caller in full.
C15_LeakNeverCached ==
    [][/\ \A k \in CacheKeys :
            cache'[k] # cache[k] => check_response_safety(cache'[k].response)
       /\ (/\ ask.pc = "store"
           /\ ask'.pc = "log"
           /\ ~check_response_safety(ask.response_text))
            => /\ cache' = cache
               /\ ask'.delivered = ask.response_text]_vars

\* both endpoints have answered a question counted up to the threshold with
\* an answer holding a leak marker: the log has the complete endpoint's entry
\* and the streaming request has just delivered its answer
C15_Witness ==
    /\ ask.pc = "log"
    /\ ask.path = "stream"
    /\ ask.generated
    /\ ~check_response_safety(ask.response_text)
    /\ ask.delivered = ask.response_text
    /\ should_use_cache(ask.content_id, ask.sanitized)
    /\ ~cache[_generate_cache_key(ask.content_id, ask.sanitized)].exists
    /\ \E i \in 1..Len(questions) :
        /\ questions[i].tokens_used
        /\ ~check_response_safety(questions[i].answer_text)

\* C16: on both per-document endpoints a question that matches an injection
\* pattern is rejected with a prompt-injection error: no embedding or LLM
\* call is made, no cache entry is read or written, and no question-log entry
\* is appended.
C16_InjectionRejected ==
    /\ (ask.pc # "idle" /\ detect_prompt_injection(ask.question)) =>
            /\ ~ask.embedded /\ ~ask.generated
            /\ ~ask.cache_read /\ ~ask.cache_written
            /\ ask.pc = "done" => ask.outcome = "PROMPT_INJECTION_DETECTED"
    /\ \A i \in 1..Len(questions) :
            ~detect_prompt_injection(questions[i].question_text)

C31_FrequencyBumpedOncePerQuery ==
    [][/\ (ask.pc = "validate" /\ ask'.pc = "check_cache")
            => frequency' =
                [frequency EXCEPT
                    ![_generate_frequency_key(ask.content_id, ask'.sanitized)] =
                        increment_question_frequency(ask.content_id,
                                                     ask'.sanitized)]
       /\ (ask.pc = "validate" /\ ask'.pc \in {"done", "log"})
            => frequency' = frequency
       /\ \A k \in CacheKeys :
            frequency'[k] # frequency[k]
                => /\ frequency'[k].count = get_question_frequency(k[1], k[2]) + 1
                   /\ frequency'[k].expires =
                        IF CounterAlive(k) THEN frequency[k].expires
                        ELSE now + FrequencyTtl]_vars

(***************************************************************************)
(* A streamed answer chunk by chunk: generate_completion_stream yields the *)
(* chunks, process_query_stream accumulates and relays them,               *)
(* ask_question_stream's generate() accumulates and relays them again and  *)
(* writes the question log once the pipeline's generator is exhausted.     *)
(* The LLM stream may raise at any point and the client may go away at any *)
(* point of the iteration.                                                 *)
(***************************************************************************)
\* the answers the LLM may stream: one to MaxStream chunks
StreamAnswers == {[i \in 1..len |-> "x"] : len \in 1..MaxStream}

\* question_doc of ask_question_stream
StreamQuestionDoc ==
    [content_id |-> stream.content_id, question_text |-> stream.question,
     answer_text |-> stream.response_text, cached |-> FALSE,
     tokens_used |-> FALSE]

\* the request up to the first chunk of the LLM: validate_question, the cache
\* lookup (a hit is yielded whole), the embedding and the retrieval
StreamStart(c, q) ==
    /\ stream.pc \in {"idle", "closed"}
    /\ Len(questions) < MaxLog
    /\ LET cached_response == get_cached_response(c, q)
           opened == [IdleStream EXCEPT !.content_id = c, !.question = q] IN
        IF cached_response.cached
        THEN stream' = [opened EXCEPT
                            !.pc = "log",
                            !.response_text = cached_response.response,
                            !.delivered = cached_response.response]
        ELSE IF PromptBlocks(c) = 0
        THEN stream' = [opened EXCEPT
                            !.pc = "log",
                            !.response_text = no_vectors_response,
                            !.delivered = no_vectors_response]
        ELSE \E a \in StreamAnswers :
                stream' = [opened EXCEPT !.pc = "llm", !.answer = a]
    /\ UNCHANGED <<questions, cache_vars>>

\* async for chunk in generate_completion_stream(messages):
\*     response_text += chunk; yield chunk         (pipeline)
\*         response_text += chunk; yield chunk     (endpoint)
StreamChunk ==
    /\ stream.pc = "llm"
    /\ stream.n < Len(stream.answer)
    /\ LET chunk == stream.answer[stream.n + 1] IN
        stream' = [stream EXCEPT
                    !.n = @ + 1,
                    !.pipeline_text = Append(@, chunk),
                    !.response_text = Append(@, chunk),
                    !.delivered = Append(@, chunk)]
    /\ UNCHANGED <<questions, cache_vars>>

\* a variant whose except clause keeps what was generated in the cache
StreamFailStored ==
    /\ stream.pc = "llm"
    /\ cache' = cache_response(stream.content_id, stream.question,
                               stream.pipeline_text)
    /\ stream' = [stream EXCEPT
                    !.pc = "log", !.failed = TRUE,
                    !.cache_written = cache' # cache,
                    !.response_text = @ \o error_message,
                    !.delivered = @ \o error_message]
    /\ UNCHANGED <<questions, now, ticks, frequency>>

\* generate_completion_stream raises OpenAIError: the pipeline's
\* `except Exception` yields error_message, which the endpoint relays and
\* accumulates like any chunk; the safety check and cache_response are skipped
StreamFail ==
    /\ stream.pc = "llm"
    /\ stream' = [stream EXCEPT
                    !.pc = "log", !.failed = TRUE,
                    !.response_text = @ \o error_message,
                    !.delivered = @ \o error_message]
    /\ UNCHANGED <<questions, cache_vars>>

\* the LLM stream is exhausted: check_response_safety, then cache_response
StreamStore ==
    /\ stream.pc = "llm"
    /\ stream.n = Len(stream.answer)
    /\ cache' = IF check_response_safety(stream.pipeline_text)
                THEN cache_response(stream.content_id, stream.question,
                                    stream.pipeline_text)
                ELSE cache
    /\ stream' = [stream EXCEPT !.pc = "log",
                                !.cache_written = cache' # cache]
    /\ UNCHANGED <<questions, now, ticks, frequency>>

\* the pipeline's generator is exhausted:
\* await db.questions.insert_one(question_doc)
StreamLog ==
    /\ stream.pc = "log"
    /\ questions' = Append(questions, StreamQuestionDoc)
    /\ stream' = [stream EXCEPT !.pc = "closed", !.logged = TRUE]
    /\ UNCHANGED cache_vars

\* the client goes away while the LLM is iterated: the response task is
\* cancelled at its await, CancelledError (GeneratorExit when the generator is
\* closed) is a BaseException that neither `except Exception` catches, and
\* both generators are unwound without running the code after their loops
StreamDisconnect ==
    /\ stream.pc = "llm"
    /\ stream' = [stream EXCEPT !.pc = "closed", !.disconnected = TRUE]
    /\ UNCHANGED <<questions, cache_vars>>

stream_frame == <<ingest_vars, upload_vars, query_vars, global_vars,
                  broker_vars, search_vars, ask, access_vars, limiter,
                  call, manager>>

NextStream ==
    \/ \E q \in Questions : StreamStart("d0", q) /\ UNCHANGED stream_frame
    \/ StreamChunk /\ UNCHANGED stream_frame
    \/ StreamFail /\ UNCHANGED stream_frame
    \/ StreamStore /\ UNCHANGED stream_frame
    \/ StreamLog /\ UNCHANGED stream_frame
    \/ StreamDisconnect /\ UNCHANGED stream_frame
    \/ \E q \in Questions :
            CacheIncrement("d0", q)
            /\ UNCHANGED <<ingest_vars, upload_vars, query, asks, leaked,
                           global_vars, rest_vars>>

SpecStream == InitQuery /\ [][NextStream]_vars

\* C22: when the client disconnects while an answer is being streamed, the
\* iteration over the LLM stream stops and the request still leaves a
\* question-log entry holding the text generated up to the abort.
C22_DisconnectStillLogged ==
    (stream.pc = "closed" /\ stream.disconnected /\ stream.n >= 1)
        => /\ stream.logged
           /\ questions # <<>>
           /\ questions[Len(questions)].answer_text = stream.pipeline_text

\* C23: when the LLM stream fails after some chunks were yielded, the response
\* ends with the error tail after the partial answer, the request appends
\* exactly one question-log entry whose answer text holds the partial answer,
\* and no step of the request writes the cache.
C23_FailedStreamLoggedNotCached ==
    [][/\ stream'.failed => cache' = cache
       /\ (~stream.failed /\ stream'.failed)
            => /\ stream'.delivered = stream.pipeline_text \o error_message
               /\ questions' = questions
       /\ (stream'.failed /\ stream'.pc = "closed") => stream'.logged
       /\ (stream.failed /\ questions' # questions)
            => /\ stream.pc = "log"
               /\ stream'.pc = "closed"
               /\ questions' = Append(questions,
                    [StreamQuestionDoc EXCEPT
                        !.answer_text =
                            stream.pipeline_text \o error_message])]_vars

C23_Witness ==
    /\ stream.pc = "closed"
    /\ stream.failed
    /\ stream.n >= 1
    /\ stream.logged
    /\ should_use_cache(stream.content_id, stream.question)
    /\ questions[Len(questions)].answer_text
            = stream.pipeline_text \o error_message

(***************************************************************************)
(* RateLimiter.check_rate_limit of the API gateway over a sorted set per   *)
(* key: every await is a suspension point, so two calls for the same key   *)
(* interleave operation by operation.  Redis may be unreachable for a      *)
(* while; every operation attempted meanwhile raises.                      *)
(***************************************************************************)
\* settings.rate_limit_per_user / rate_limit_global and
\* rate_limit_window_hours * 3600, scaled down
requests_per_window == 1
window_seconds == 2

\* the members of the sorted set at key; a key past its expiry is gone
ZSet(key) ==
    IF limiter.expires[key] # NoExpiry /\ limiter.clock >= limiter.expires[key]
    THEN {}
    ELSE limiter.zset[key]

\* the expiry of key as Redis holds it: none once the key is gone
KeyExpiry(key) ==
    IF ZSet(key) = {} THEN NoExpiry ELSE limiter.expires[key]

\* a variant of the except clause that lets the request through
UnavailableAdmit(r, op) ==
    [limiter EXCEPT
        !.req[r] = [@ EXCEPT !.pc = "done", !.outcome = "admitted",
                             !.failed_op = op],
        !.admitted = Append(@, [key |-> limiter.req[r].key,
                                time |-> limiter.req[r].current_time])]

\* except Exception: raise RateLimitError("Rate limiting service unavailable")
Unavailable(r, op) ==
    [limiter EXCEPT
        !.req[r] = [@ EXCEPT !.pc = "done", !.outcome = "unavailable",
                             !.failed_op = op]]

\* check_rate_limit(key, ...) is called: current_time = time.time()
LimitStart(r, key) ==
    /\ limiter.req[r].pc \in {"idle", "done"}
    /\ limiter.started < MaxRequests
    /\ limiter' = [limiter EXCEPT
            !.started = @ + 1,
            !.req[r] = [IdleLimit EXCEPT !.pc = "zremrangebyscore",
                                         !.key = key,
                                         !.current_time = limiter.clock]]

\* zremrangebyscore(key, 0, window_start): scores from 0 to window_start
\* inclusive go
LimitRemove(r) ==
    LET q == limiter.req[r]
        window_start == q.current_time - window_seconds IN
    /\ q.pc = "zremrangebyscore"
    /\ limiter' =
        IF ~limiter.up THEN Unavailable(r, "zremrangebyscore")
        ELSE [limiter EXCEPT
                !.zset[q.key] = {t \in ZSet(q.key) :
                                    ~(0 <= t /\ t <= window_start)},
                !.expires[q.key] = KeyExpiry(q.key),
                !.req[r].pc = "zcard"]

\* request_count = zcard(key); RateLimitError when it has reached the limit
LimitCount(r) ==
    LET q == limiter.req[r]
        request_count == Cardinality(ZSet(q.key)) IN
    /\ q.pc = "zcard"
    /\ limiter' =
        IF ~limiter.up THEN Unavailable(r, "zcard")
        ELSE IF request_count >= requests_per_window
        THEN [limiter EXCEPT !.req[r].pc = "done",
                             !.req[r].outcome = "exceeded"]
        ELSE [limiter EXCEPT !.req[r].pc = "zadd"]

\* zadd(key, {str(current_time): current_time}): the member is the timestamp
\* written out, so a second request with the same timestamp adds nothing
LimitAdd(r) ==
    LET q == limiter.req[r] IN
    /\ q.pc = "zadd"
    /\ limiter' =
        IF ~limiter.up THEN Unavailable(r, "zadd")
        ELSE [limiter EXCEPT
                !.zset[q.key] = ZSet(q.key) \cup {q.current_time},
                !.expires[q.key] = KeyExpiry(q.key),
                !.req[r].pc = "expire"]

\* redis_client.expire(key, window_seconds), then return True
LimitExpire(r) ==
    LET q == limiter.req[r] IN
    /\ q.pc = "expire"
    /\ limiter' =
        IF ~limiter.up THEN Unavailable(r, "expire")
        ELSE [limiter EXCEPT
                !.zset[q.key] = ZSet(q.key),
                !.expires[q.key] = IF ZSet(q.key) = {} THEN NoExpiry
                                   ELSE limiter.clock + window_seconds,
                !.req[r].pc = "done",
                !.req[r].outcome = "admitted",
                !.admitted = Append(@, [key |-> q.key,
                                        time |-> q.current_time])]

\* a second passes
LimiterTick ==
    /\ limiter.clock < MaxClock
    /\ limiter' = [limiter EXCEPT !.clock = @ + 1]

\* Redis becomes unreachable, or reachable again
StoreDown ==
    /\ limiter.up
    /\ limiter.outages < MaxOutages
    /\ limiter' = [limiter EXCEPT !.up = FALSE, !.outages = @ + 1]

StoreUp ==
    /\ ~limiter.up
    /\ limiter' = [limiter EXCEPT !.up = TRUE]

InitLimiter ==
    /\ InitQuery
    /\ limiter = IdleLimiter

limiter_frame == <<ingest_vars, upload_vars, cache_vars, query_vars,
                   global_vars, broker_vars, search_vars, ask_vars,
                   access_vars, stream, call, manager>>

NextLimiter ==
    \/ \E r \in LimitIds, key \in LimiterKeys :
            LimitStart(r, key) /\ UNCHANGED limiter_frame
    \/ \E r \in LimitIds : LimitRemove(r) /\ UNCHANGED limiter_frame
    \/ \E r \in LimitIds : LimitCount(r) /\ UNCHANGED limiter_frame
    \/ \E r \in LimitIds : LimitAdd(r) /\ UNCHANGED limiter_frame
    \/ \E r \in LimitIds : LimitExpire(r) /\ UNCHANGED limiter_frame
    \/ LimiterTick /\ UNCHANGED limiter_frame
    \/ StoreDown /\ UNCHANGED limiter_frame
    \/ StoreUp /\ UNCHANGED limiter_frame

SpecLimiter == InitLimiter /\ [][NextLimiter]_vars

\* C25: a request during whose check any operation on the store failed is
\* rejected with a rate-limit error and never admitted, on the per-user and
\* on the global key alike.
C25_StoreFailureRejects ==
    \A r \in LimitIds :
        /\ limiter.req[r].failed_op # "none"
            => /\ limiter.req[r].pc = "done"
               /\ limiter.req[r].outcome = "unavailable"
        /\ limiter.req[r].outcome = "admitted"
            => limiter.req[r].failed_op = "none"

C25_Witness ==
    \E r1, r2 \in LimitIds :
        /\ limiter.req[r1].key = "rate_limit:user:u1"
        /\ limiter.req[r1].failed_op = "expire"
        /\ limiter.req[r1].outcome = "unavailable"
        /\ limiter.req[r2].key = "rate_limit:global"
        /\ limiter.req[r2].failed_op = "zcard"
        /\ limiter.req[r2].outcome = "unavailable"

\* the admitted requests for key whose timestamp lies in the window of
\* window_seconds that ends at second t
AdmittedIn(key, t) ==
    {i \in DOMAIN limiter.admitted :
        /\ limiter.admitted[i].key = key
        /\ limiter.admitted[i].time > t - window_seconds
        /\ limiter.admitted[i].time <= t}

\* C26: for every key and every interval of window_seconds, at most
\* requests_per_window requests are admitted, also when requests for the key
\* are checked concurrently or carry the same timestamp.
C26_AtMostLimitPerWindow ==
    \A key \in LimiterKeys, t \in 0..MaxClock :
        Cardinality(AdmittedIn(key, t)) <= requests_per_window

(***************************************************************************)
(* Calls of the pure functions of the shared utilities, one per behaviour: *)
(* the arguments are drawn at the start and the call returns or raises.    *)
(***************************************************************************)
\* no document, no job, no request: only the call exists
InitCall ==
    /\ content = [c \in ContentIds |-> NoDoc]
    /\ queue = {}
    /\ worker = [w \in Workers |-> IdleWorker]
    /\ vectors = [c \in ContentIds |-> <<>>]
    /\ published = [c \in ContentIds |-> <<>>]
    /\ crashes = 0
    /\ upserted = [c \in ContentIds |-> {}]
    /\ upload = [r \in UploadIds |-> IdleUpload]
    /\ QueryIdle
    /\ BrokerIdle
    /\ gsearch = IdleSearch
    /\ AskIdle
    /\ OthersIdle

call_frame == <<ingest_vars, upload_vars, cache_vars, query_vars,
                global_vars, broker_vars, search_vars, ask_vars,
                access_vars, stream, limiter, manager>>

(***************************************************************************)
(* InputValidator.validate_question character by character.  A question is *)
(* a sequence of characters: letters in both cases, the space, and NUL for *)
(* a character that is not printable.                                      *)
(***************************************************************************)
QuestionChars == {"i", "I", "g", " ", "NUL"}
QuestionTexts == UNION {[1..n -> QuestionChars] : n \in 0..(max_length + 1)}

\* the library as literals: a word and a phrase with whitespace inside
PatternLibrary == {<<"i", "g">>, <<"g", " ", "i">>}

\* char.isprintable() or char in '\n\t'
IsKept(char) == char # "NUL"

\* ''.join(char for char in text if char.isprintable() or char in '\n\t')
RECURSIVE JoinKept(_)
JoinKept(text) ==
    IF text = <<>> THEN <<>>
    ELSE IF IsKept(Head(text)) THEN <<Head(text)>> \o JoinKept(Tail(text))
    ELSE JoinKept(Tail(text))

\* a variant that measures the text after it has been scrubbed
SanitizeInputScrubbedLength(text, max) ==
    LET sanitized == JoinKept(text) IN
    IF Len(sanitized) > max
    THEN [raised |-> "ValidationError", value |-> <<>>]
    ELSE [raised |-> "none", value |-> Strip(sanitized)]

\* InputValidator.sanitize_input(text, max_length)
SanitizeInput(text, max) ==
    IF Len(text) > max
    THEN [raised |-> "ValidationError", value |-> <<>>]
    ELSE [raised |-> "none", value |-> Strip(JoinKept(text))]

\* re.search(pattern, text): the pattern occurs somewhere in the text
ReSearch(pattern, text) ==
    \E i \in 1..(Len(text) - Len(pattern) + 1) :
        SubSeq(text, i, i + Len(pattern) - 1) = pattern

\* InputValidator.detect_prompt_injection(text)
DetectPromptInjection(text) ==
    LET text_lower == LowerAll(text) IN
    \E pattern \in PatternLibrary : ReSearch(pattern, text_lower)

\* InputValidator.validate_question(question, max_length)
ValidateQuestion(question, max) ==
    LET sanitized == SanitizeInput(question, max) IN
    IF sanitized.raised # "none" THEN sanitized
    ELSE IF DetectPromptInjection(sanitized.value)
    THEN [raised |-> "PromptInjectionError", value |-> <<>>]
    ELSE IF sanitized.value = <<>>
    THEN [raised |-> "ValidationError", value |-> <<>>]
    ELSE sanitized

\* validate_question is called with the question and the default max_length
CallValidateQuestion ==
    /\ call.pc = "called"
    /\ call' = [call EXCEPT !.pc = "returned",
                            !.result = ValidateQuestion(call.input,
                                                        max_length)]

InitValidate ==
    /\ InitCall
    /\ \E q \in QuestionTexts :
        call = [pc |-> "called", input |-> q,
                result |-> [raised |-> "none", value |-> <<>>]]

NextValidate == CallValidateQuestion /\ UNCHANGED call_frame

SpecValidate == InitValidate /\ [][NextValidate]_vars

\* the text without its characters that are not printable
Scrubbed(q) == SelectSeq(q, IsKept)

\* s is t without the spaces at its two ends
IsTrimOf(s, t) ==
    /\ s # <<>> => s[1] # " " /\ s[Len(s)] # " "
    /\ \E i, j \in 0..Len(t) :
        /\ i + Len(s) + j = Len(t)
        /\ \A k \in 1..Len(t) :
            IF k <= i \/ k > i + Len(s) THEN t[k] = " " ELSE t[k] = s[k - i]

\* the lowered text contains a pattern of the library
MatchesLibrary(t) ==
    \E pattern \in PatternLibrary :
        \E i \in 1..Len(t) :
            /\ i + Len(pattern) - 1 <= Len(t)
            /\ \A k \in 1..Len(pattern) : Lower(t[i + k - 1]) = pattern[k]

jwt_secret == "secret"
jwt_algorithm == "HS256"
\* settings.access_token_expire_minutes and refresh_token_expire_days, in
\* seconds and scaled down
access_token_expire == 1
refresh_token_expire == 2

Email == [u \in Users |-> IF u = "u1" THEN "t@x" ELSE "s@x"]
Origins == {"access", "refresh", "foreign"}

\* timegm(value.utctimetuple()): the microseconds are dropped
Timestamp(datetime) == datetime.s

\* the signature of jwt.encode over the header and the claims
Sign(claims, key, algorithm) == <<key, algorithm, claims>>

\* jwt.encode(payload, key, algorithm): exp and iat become timestamps
jwt_encode(payload, key, algorithm) ==
    LET claims == [payload EXCEPT !.exp = Timestamp(@),
                                  !.iat = Timestamp(@)] IN
    [header |-> [alg |-> algorithm, typ |-> "JWT"],
     claims |-> claims,
     signature |-> Sign(claims, key, algorithm)]

\* jwt.decode(token, key, algorithms) at second now: the claims, or JWTError
\* for an algorithm that is not allowed, a signature that does not verify,
\* or an exp that has passed
jwt_decode(token, key, algorithms, now_s) ==
    IF token.header.alg \notin algorithms THEN [raised |-> "JWTError"]
    ELSE IF token.signature # Sign(token.claims, key, token.header.alg)
    THEN [raised |-> "JWTError"]
    ELSE IF token.claims.exp < now_s THEN [raised |-> "JWTError"]
    ELSE [raised |-> "none", payload |-> token.claims]

\* JWTHandler.create_access_token at utcnow
create_access_token(user_id, email, role, utcnow) ==
    jwt_encode([sub |-> user_id, email |-> email, role |-> role,
                exp |-> [utcnow EXCEPT !.s = @ + access_token_expire],
                iat |-> utcnow, type |-> "access"],
               jwt_secret, jwt_algorithm)

\* JWTHandler.create_refresh_token at utcnow
create_refresh_token(user_id, email, role, utcnow) ==
    jwt_encode([sub |-> user_id, email |-> email, role |-> role,
                exp |-> [utcnow EXCEPT !.s = @ + refresh_token_expire],
                iat |-> utcnow, type |-> "refresh"],
               jwt_secret, jwt_algorithm)

\* JWTHandler.decode_token: JWTError becomes InvalidTokenError
decode_token(token, now_s) ==
    LET decoded == jwt_decode(token, jwt_secret, {jwt_algorithm}, now_s) IN
    IF decoded.raised # "none" THEN [raised |-> "InvalidTokenError"]
    ELSE decoded

\* a variant that returns whatever decodes
verify_access_token_untyped(token, now_s) == decode_token(token, now_s)

\* JWTHandler.verify_access_token
verify_access_token(token, now_s) ==
    LET decoded == decode_token(token, now_s) IN
    IF decoded.raised # "none" THEN decoded
    ELSE IF decoded.payload.type # "access"
    THEN [raised |-> "InvalidTokenError"]
    ELSE decoded

\* JWTHandler.verify_refresh_token
verify_refresh_token(token, now_s) ==
    LET decoded == decode_token(token, now_s) IN
    IF decoded.raised # "none" THEN decoded
    ELSE IF decoded.payload.type # "refresh"
    THEN [raised |-> "InvalidTokenError"]
    ELSE decoded

\* a token is issued for the user: by one of the two creators, or by a
\* party that signs with a secret of its own
IssueToken ==
    /\ call.pc = "issue"
    /\ LET u == call.user_id
           utcnow == [s |-> call.clock, us |-> call.us] IN
        call' = [call EXCEPT
            !.pc = "issued",
            !.token =
                IF call.origin = "access"
                THEN create_access_token(u, Email[u], Role[u], utcnow)
                ELSE IF call.origin = "refresh"
                THEN create_refresh_token(u, Email[u], Role[u], utcnow)
                ELSE jwt_encode([sub |-> u, email |-> Email[u],
                                 role |-> "teacher",
                                 exp |-> [utcnow EXCEPT !.s = @ + MaxAge],
                                 iat |-> utcnow, type |-> "access"],
                                "another secret", jwt_algorithm)]

\* a second passes
TokenTick ==
    /\ call.pc = "issued"
    /\ call.clock < MaxAge
    /\ call' = [call EXCEPT !.clock = @ + 1]

\* the token is presented to decode_token, verify_access_token or
\* verify_refresh_token
PresentToken(fn) ==
    /\ call.pc = "issued"
    /\ call' = [call EXCEPT
            !.pc = "returned", !.fn = fn,
            !.result =
                IF fn = "decode_token"
                THEN decode_token(call.token, call.clock)
                ELSE IF fn = "verify_access_token"
                THEN verify_access_token(call.token, call.clock)
                ELSE verify_refresh_token(call.token, call.clock)]

TokenFunctions == {"decode_token", "verify_access_token",
                   "verify_refresh_token"}

InitToken ==
    /\ InitCall
    /\ \E u \in Users, origin \in Origins, us \in 0..1 :
        call = [pc |-> "issue", user_id |-> u, origin |-> origin,
                clock |-> 0, us |-> us, token |-> <<>>, fn |-> "none",
                result |-> [raised |-> "none"]]

NextToken ==
    \/ IssueToken /\ UNCHANGED call_frame
    \/ TokenTick /\ UNCHANGED call_frame
    \/ \E fn \in TokenFunctions : PresentToken(fn) /\ UNCHANGED call_frame

SpecToken == InitToken /\ [][NextToken]_vars

\* the lifetime create_access_token / create_refresh_token gives its token
LifetimeOf(origin) ==
    IF origin = "access" THEN access_token_expire ELSE refresh_token_expire

\* C29: decoding a token made by create_access_token or create_refresh_token
\* gives back the sub, email and role it was made for, with type access or
\* refresh respectively; verify_access_token returns a payload only for a
\* token of type access and verify_refresh_token only for one of type
\* refresh, and each returns the payload of every unexpired token of its type
\* that the creators made.
C29_TokenRoundTrip ==
    call.pc = "returned" =>
        LET u == call.user_id
            r == call.result
            made == call.origin \in {"access", "refresh"}
            fresh == call.clock <= LifetimeOf(call.origin)
            wanted == IF call.fn = "verify_access_token" THEN "access"
                      ELSE IF call.fn = "verify_refresh_token" THEN "refresh"
                      ELSE call.origin IN
        /\ r.raised = "none"
            => /\ made
               /\ r.payload.sub = u
               /\ r.payload.email = Email[u]
               /\ r.payload.role = Role[u]
               /\ r.payload.type = call.origin
               /\ call.origin = wanted
        /\ (made /\ fresh /\ call.origin = wanted) => r.raised = "none"

C29_Witness ==
    /\ call.pc = "returned"
    /\ call.fn = "verify_refresh_token"
    /\ call.origin = "refresh"
    /\ call.clock = refresh_token_expire
    /\ call.us = 1
    /\ call.result.raised = "none"
    /\ call.result.payload.sub = call.user_id
    /\ call.result.payload.exp = refresh_token_expire

(***************************************************************************)
(* TokenBasedChunker with its chunk_size and chunk_overlap as given to the *)
(* constructor, over one section of a number of tokens: _chunk_section     *)
(* pass by pass of its while loop, then the numbering of chunk_document.   *)
(* A chunk is kept as the token window it was cut from.                    *)
(***************************************************************************)
ChunkSizes == 1..MaxSize
ChunkOverlaps == 0..MaxSize
TokenCounts == 0..MaxTokens

\* a slice bound as Python reads it: negative counts from the end, and both
\* ends are clamped to the list
SliceBound(i, len) ==
    IF i < 0 THEN (IF len + i < 0 THEN 0 ELSE len + i)
    ELSE IF i > len THEN len ELSE i

\* len(tokens[start:end])
SliceLen(start, end, len) ==
    LET lo == SliceBound(start, len)
        hi == SliceBound(end, len)
    IN  IF hi > lo THEN hi - lo ELSE 0

\* tokens = self.encoding.encode(content); a section that fits is returned
\* as one chunk, otherwise start = 0 and the loop is entered
ChunkSectionStart ==
    /\ call.pc = "called"
    /\ IF call.tokens <= call.chunk_size
       THEN call' = [call EXCEPT
                !.pc = "number",
                !.chunks = <<[start_token |-> 0, end_token |-> call.tokens,
                              token_count |-> call.tokens]>>]
       ELSE call' = [call EXCEPT !.pc = "loop", !.start = 0]

\* a variant that moves the window by chunk_size, without the overlap
ChunkSectionWindowNoOverlap ==
    /\ call.pc = "loop"
    /\ call.start < call.tokens
    /\ Len(call.chunks) < MaxWindows
    /\ LET end == Min(call.start + call.chunk_size, call.tokens) IN
        call' = [call EXCEPT
            !.chunks = Append(@, [start_token |-> call.start,
                                  end_token |-> end,
                                  token_count |-> SliceLen(call.start, end,
                                                           call.tokens)]),
            !.start = @ + call.chunk_size]

\* one pass of `while start < len(tokens)`: end, the slice, the chunk, and
\* start += (self.chunk_size - self.chunk_overlap)
ChunkSectionWindow ==
    /\ call.pc = "loop"
    /\ call.start < call.tokens
    /\ Len(call.chunks) < MaxWindows
    /\ LET end == Min(call.start + call.chunk_size, call.tokens) IN
        call' = [call EXCEPT
            !.chunks = Append(@, [start_token |-> call.start,
                                  end_token |-> end,
                                  token_count |-> SliceLen(call.start, end,
                                                           call.tokens)]),
            !.start = @ + (call.chunk_size - call.chunk_overlap)]

\* the loop condition fails: return chunks
ChunkSectionReturn ==
    /\ call.pc = "loop"
    /\ call.start >= call.tokens
    /\ call' = [call EXCEPT !.pc = "number"]

\* chunk_document: for idx, chunk in enumerate(chunks):
\*     chunk['chunk_index'] = idx; chunk['total_chunks'] = len(chunks)
ChunkDocumentNumber ==
    /\ call.pc = "number"
    /\ call' = [call EXCEPT
            !.pc = "returned",
            !.result = [i \in 1..Len(call.chunks) |->
                            [chunk_index |-> i - 1,
                             total_chunks |-> Len(call.chunks),
                             start_token |-> call.chunks[i].start_token,
                             end_token |-> call.chunks[i].end_token,
                             token_count |-> call.chunks[i].token_count]]]

\* a chunker built with some chunk_size and chunk_overlap is handed a
\* document of one section
InitChunker ==
    /\ InitCall
    /\ \E size \in ChunkSizes, overlap \in ChunkOverlaps, len \in TokenCounts :
        call = [pc |-> "called", chunk_size |-> size,
                chunk_overlap |-> overlap, tokens |-> len, start |-> 0,
                chunks |-> <<>>, result |-> <<>>]

NextChunker ==
    \/ ChunkSectionStart /\ UNCHANGED call_frame
    \/ ChunkSectionWindow /\ UNCHANGED call_frame
    \/ ChunkSectionReturn /\ UNCHANGED call_frame
    \/ ChunkDocumentNumber /\ UNCHANGED call_frame

SpecChunker == InitChunker /\ [][NextChunker]_vars

\* the token positions of the window a chunk was cut from
Window(chunk) == {t \in 0..(MaxTokens + 1) :
                    chunk.start_token <= t /\ t < chunk.end_token}

C40_ChunkerTerminates ==
    [][(call.pc = "loop" /\ call'.pc = "loop")
            => call'.start > call.start]_vars

(***************************************************************************)
(* access_control.get_user_accessible_docs over the records upload_content *)
(* leaves: processing, completed by the worker, or failed by the upload's  *)
(* except clause, with later uploaders of the same content in the history. *)
(***************************************************************************)
Statuses == {"processing", "completed", "failed"}
AccessDocs == {"d0", "d1"}
NoUser == "none"

\* a record owned by user in the given status, uploaded again by again
AccessContent(c, user, status, again) ==
    [NewContent(c, user, 1) EXCEPT
        !.status = status,
        !.processed_chunks = IF status = "completed" THEN 1 ELSE 0,
        !.upload_history = IF again = NoUser THEN <<user>>
                           ELSE <<user, again>>]

\* role = user.get("role", "student"); doc_ids of the find for that role
ResolveAccess(u) ==
    /\ access' = [user_id |-> u,
                  doc_ids |-> get_user_accessible_docs(u, Role[u])]
    /\ UNCHANGED <<ingest_vars, upload_vars, cache_vars, query_vars,
                   global_vars, broker_vars, search_vars, ask_vars, deletion,
                   side_vars>>

InitAccess ==
    /\ \E stored \in SUBSET AccessDocs, owner \in [AccessDocs -> Users],
          status \in [AccessDocs -> Statuses],
          again \in [AccessDocs -> Users \cup {NoUser}] :
        content = [c \in ContentIds |->
                    IF c \in stored
                    THEN AccessContent(c, owner[c], status[c], again[c])
                    ELSE NoDoc]
    /\ queue = {}
    /\ worker = [w \in Workers |-> IdleWorker]
    /\ vectors = [c \in ContentIds |-> <<>>]
    /\ published = [c \in ContentIds |-> <<>>]
    /\ crashes = 0
    /\ upserted = [c \in ContentIds |-> {}]
    /\ upload = [r \in UploadIds |-> IdleUpload]
    /\ QuerySideIdle

NextAccess == \E u \in Users : ResolveAccess(u)

SpecAccess == InitAccess /\ [][NextAccess]_vars

\* C18: the resolver returns, for a teacher, every completed document plus
\* every document the teacher owns, in any status (processing and failed
\* included); for a student, every completed document uploaded by a teacher
\* plus every document in whose upload history the student appears, in any
\* status.
C18_AccessibleSets ==
    access.user_id # NoUser =>
        LET u == access.user_id
            stored == {d \in ContentIds : content[d].exists}
            teachers == {t \in Users : Role[t] = "teacher"}
        IN  access.doc_ids =
                IF Role[u] = "teacher"
                THEN {d \in stored : \/ content[d].status = "completed"
                                     \/ content[d].user_id = u}
                ELSE {d \in stored :
                        \/ /\ content[d].user_id \in teachers
                           /\ content[d].status = "completed"
                        \/ u \in Range(content[d].upload_history)}

(***************************************************************************)
(* delete_content (services/document-processor/main.py) over               *)
(* DocumentDeletionService.delete_document_complete, one request after the *)
(* other.  upload_content removes its temporary file itself and nothing    *)
(* writes to the uploads directory, so no stored file exists at any time.  *)
(***************************************************************************)
DeleteDocs == {"d0", "d1"}
DeleteUsers == Users \cup {"u0"}

\* the prefixes of the keys ResponseCache writes, and the one the scan asks for
cache_prefix == "rag_cache:"
frequency_prefix == "rag_frequency:"
scan_prefix == "rag:cache:"

\* scan_iter(match=f"rag:cache:*{content_id}*") against a key prefix:content_id:hash
ScanMatches(prefix, k, content_id) ==
    /\ prefix = scan_prefix
    /\ k[1] = content_id

\* a request arrives; whether the service's Redis client is connected is the
\* deployment's choice
DeleteStart(c, u) ==
    /\ deletion.pc \in {"idle", "done"}
    /\ \E connected \in BOOLEAN :
        deletion' = [IdleDeletion EXCEPT
            !.pc = "check", !.content_id = c, !.user_id = u,
            !.redis = connected, !.gone = deletion.gone,
            !.second = c \in deletion.gone]
    /\ UNCHANGED <<content, vectors, cache, frequency, questions>>

\* db.content.find_one, db.users.find_one and the permission check
DeleteCheck ==
    /\ deletion.pc = "check"
    /\ LET content_doc == content[deletion.content_id]
           user_id == deletion.user_id
       IN  IF ~content_doc.exists
           THEN deletion' = [deletion EXCEPT !.pc = "done",
                                             !.status_code = 404]
           ELSE IF user_id \notin Users
           THEN deletion' = [deletion EXCEPT !.pc = "done",
                                             !.status_code = 401]
           ELSE LET is_owner == content_doc.user_id = user_id
                    is_teacher == Role[user_id] = "teacher"
                    is_uploader == user_id \in Range(content_doc.upload_history)
                IN  IF ~(is_owner \/ is_teacher \/ is_uploader)
                    THEN deletion' = [deletion EXCEPT !.pc = "done",
                                                      !.status_code = 403]
                    ELSE deletion' = [deletion EXCEPT !.pc = "record"]
    /\ UNCHANGED <<content, vectors, cache, frequency, questions>>

\* delete_document_complete, steps 1 and 2: find_one, then delete_one; a
\* record that is gone ends the service with untouched stats
DeleteRecord ==
    /\ deletion.pc = "record"
    /\ IF ~content[deletion.content_id].exists
       THEN /\ deletion' = [deletion EXCEPT !.pc = "done",
                                            !.status_code = 200]
            /\ content' = content
       ELSE /\ content' = [content EXCEPT ![deletion.content_id] = NoDoc]
            /\ deletion' = [deletion EXCEPT !.pc = "cascade",
                                            !.stats.mongodb_deleted = TRUE]
    /\ UNCHANGED <<vectors, cache, frequency, questions>>

\* steps 3 to 5: pinecone_client is None, so the namespace is left alone; the
\* file is not there; a connected Redis is scanned and the matching keys
\* are deleted
DeleteCascade ==
    /\ deletion.pc = "cascade"
    /\ cache' = [k \in CacheKeys |->
                    IF deletion.redis
                       /\ ScanMatches(cache_prefix, k, deletion.content_id)
                    THEN NoEntry ELSE cache[k]]
    /\ frequency' = [k \in CacheKeys |->
                    IF deletion.redis
                       /\ ScanMatches(frequency_prefix, k, deletion.content_id)
                    THEN NoCounter ELSE frequency[k]]
    /\ deletion' = [deletion EXCEPT
            !.pc = "questions",
            !.stats.cache_cleared =
                \E k \in CacheKeys : cache'[k] # cache[k]
                                     \/ frequency'[k] # frequency[k]]
    /\ UNCHANGED <<content, vectors, questions>>

\* step 6: count_documents, delete_many; the endpoint answers 200 with the
\* stats
DeleteQuestions ==
    /\ deletion.pc = "questions"
    /\ LET ForDoc(entry) == entry.content_id = deletion.content_id
           Others(entry) == entry.content_id # deletion.content_id
       IN  /\ questions' = SelectSeq(questions, Others)
           /\ deletion' = [deletion EXCEPT
                !.pc = "done", !.status_code = 200,
                !.gone = @ \cup {deletion.content_id},
                !.stats.questions_affected =
                    Len(SelectSeq(questions, ForDoc))]
    /\ UNCHANGED <<content, vectors, cache, frequency>>

\* a question-log entry of a document
LogEntry(c) ==
    [content_id |-> c, question_text |-> "a", answer_text |-> <<"x">>,
     cached |-> FALSE, tokens_used |-> FALSE]

\* two vectorized documents, some of their questions counted and cached,
\* some asked and logged
InitDelete ==
    /\ \E owner \in [DeleteDocs -> Users] :
        content = [c \in ContentIds |->
                    IF c \in DeleteDocs
                    THEN StoredContent(c, owner[c], TRUE) ELSE NoDoc]
    /\ queue = {}
    /\ worker = [w \in Workers |-> IdleWorker]
    /\ vectors = [c \in ContentIds |->
                    IF c \in DeleteDocs
                    THEN [v \in {VectorId(c, 0)} |->
                            [content_id |-> c, chunk_index |-> 0]]
                    ELSE <<>>]
    /\ published = [c \in ContentIds |-> <<>>]
    /\ crashes = 0
    /\ upserted = [c \in ContentIds |-> IF c \in DeleteDocs THEN {0} ELSE {}]
    /\ upload = [r \in UploadIds |-> IdleUpload]
    /\ now = 0
    /\ ticks = 0
    /\ \E hot \in SUBSET DeleteDocs :
        /\ frequency = [k \in CacheKeys |->
                IF k[1] \in hot
                THEN [count |-> frequency_threshold,
                      expires |-> FrequencyTtl]
                ELSE NoCounter]
        /\ cache = [k \in CacheKeys |->
                IF k[1] \in hot
                THEN [exists |-> TRUE, response |-> <<"x">>, expires |-> ttl]
                ELSE NoEntry]
    /\ \E log \in UNION {[1..n -> DeleteDocs] : n \in 0..MaxLog} :
        questions = [i \in 1..Len(log) |-> LogEntry(log[i])]
    /\ query = IdleQuery
    /\ asks = [k \in CacheKeys |-> 0]
    /\ last = [k \in CacheKeys |-> NoResult]
    /\ leaked = [k \in CacheKeys |-> FALSE]
    /\ globalq = IdleGlobal
    /\ BrokerIdle
    /\ gsearch = IdleSearch
    /\ ask = IdleAsk
    /\ access = IdleAccess
    /\ deletion = IdleDeletion
    /\ stream = IdleStream
    /\ limiter = IdleLimiter
    /\ call = NoCall
    /\ manager = IdleManager

delete_frame == <<queue, worker, published, crashes, upserted, upload_vars,
                  now, ticks, query_vars, global_vars, broker_vars,
                  search_vars, ask, access, side_vars>>

NextDelete ==
    \/ \E c \in DeleteDocs, u \in DeleteUsers :
            DeleteStart(c, u) /\ UNCHANGED delete_frame
    \/ DeleteCheck /\ UNCHANGED delete_frame
    \/ DeleteRecord /\ UNCHANGED delete_frame
    \/ DeleteCascade /\ UNCHANGED delete_frame
    \/ DeleteQuestions /\ UNCHANGED delete_frame

SpecDelete == InitDelete /\ [][NextDelete]_vars

\* C19: after a delete of document D by an authorized caller there is no
\* document record for D, no vector in namespace D, no cache entry and no
\* frequency counter keyed by D, and no question-log entry for D.
C19_DeleteRemovesEverything ==
    (deletion.pc = "done" /\ deletion.status_code = 200) =>
        LET D == deletion.content_id IN
        /\ ~content[D].exists
        /\ DOMAIN vectors[D] = {}
        /\ \A k \in CacheKeys :
                k[1] = D => ~cache[k].exists /\ frequency[k] = NoCounter
        /\ \A i \in 1..Len(questions) : questions[i].content_id # D

\* C20: deleting the same document id a second time reports success with
\* all deletion counts zero.
C20_SecondDeleteSucceeds ==
    (deletion.pc = "done" /\ deletion.second) =>
        /\ deletion.status_code = 200
        /\ deletion.stats = NoStats

(***************************************************************************)
(* delete_content next to the workers: a document whose chunk jobs are     *)
(* still queued or being processed is deleted by a caller.                 *)
(***************************************************************************)
NextInFlight ==
    \/ \E u \in DeleteUsers : DeleteStart("d0", u) /\ UNCHANGED delete_frame
    \/ DeleteCheck /\ UNCHANGED delete_frame
    \/ DeleteRecord /\ UNCHANGED delete_frame
    \/ DeleteCascade /\ UNCHANGED delete_frame
    \/ DeleteQuestions /\ UNCHANGED delete_frame
    \/ \E w \in Workers : WorkerStep(w) /\ UNCHANGED <<upload_vars, query_side>>
    \/ \E w \in Workers : Crash(w) /\ UNCHANGED <<upload_vars, query_side>>

SpecInFlight == InitWorker /\ [][NextInFlight]_vars

\* C34: no vector is left in the namespace of a document whose record does
\* not exist: when a document is deleted while some of its chunk jobs are
\* still in flight, then once the queue has drained its vector namespace is
\* empty, and no document record or progress event is created for it.
C34_NoVectorWithoutRecord ==
    [][\A d \in ContentIds :
        /\ ~content[d].exists
                => /\ ~content'[d].exists
                   /\ published'[d] = published[d]
        /\ (Drained' /\ deletion'.pc = "done" /\ ~content'[d].exists)
                => DOMAIN vectors'[d] = {}]_vars

(***************************************************************************)
(* ConnectionManager (websocket_handler.py): sockets register per          *)
(* document, one task listens on the pattern document:status:* and relays  *)
(* what it receives.  Redis pub/sub hands a published message to the       *)
(* subscriptions that exist at that moment and keeps nothing for later.    *)
(***************************************************************************)
Sockets == {"s1", "s2"}
SocketDocs == {"d0", "d1"}

\* the sockets registered for any document
Registered == UNION {manager.active_connections[c] : c \in SocketDocs}

\* connect: register the socket; `if not self._listener_task` is true only
\* for None, a Task object is truthy whether it runs or has ended
WsConnect(ws, content_id) ==
    /\ ws \notin Registered
    /\ manager' = [manager EXCEPT
            !.active_connections[content_id] = @ \cup {ws},
            !.listener_task = IF manager.listener_task = "None"
                              THEN "running" ELSE @]

\* disconnect: the client went away (WebSocketDisconnect in the endpoint)
WsDisconnect(ws, content_id) ==
    /\ ws \in manager.active_connections[content_id]
    /\ manager' = [manager EXCEPT
            !.active_connections[content_id] = @ \ {ws}]

\* the listener ends: pubsub() or psubscribe or listen() raises (the Redis
\* client is not connected, the connection drops), the except clause logs
\* it and the coroutine returns; self._listener_task keeps the ended task
\* and the messages not yet relayed are gone with the subscription
ListenerEnds ==
    /\ manager.listener_task = "running"
    /\ manager' = [manager EXCEPT !.listener_task = "done", !.inbox = <<>>]

\* a worker publishes an event on document:status:{content_id}: it reaches
\* the subscription of a running listener and is lost otherwise
PublishStatus(content_id) ==
    /\ manager.events < MaxEvents
    /\ manager' = [manager EXCEPT
            !.events = @ + 1,
            !.inbox = IF manager.listener_task = "running"
                      THEN Append(@, [content_id |-> content_id,
                                      event |-> manager.events + 1])
                      ELSE @]

\* one message of `async for message in pubsub.listen()`: send_status sends
\* it to every socket of the document and disconnects those whose send
\* raised
ListenerForward ==
    /\ manager.listener_task = "running"
    /\ manager.inbox # <<>>
    /\ LET message == Head(manager.inbox)
           sockets == manager.active_connections[message.content_id] IN
        \E disconnected \in SUBSET sockets :
            manager' = [manager EXCEPT
                !.inbox = Tail(@),
                !.active_connections[message.content_id] = @ \ disconnected,
                !.received = [ws \in Sockets |->
                    IF ws \in sockets \ disconnected
                    THEN Append(@[ws], message.event) ELSE @[ws]]]

InitManager ==
    /\ InitCall
    /\ call = NoCall

manager_frame == <<ingest_vars, upload_vars, cache_vars, query_vars,
                   global_vars, broker_vars, search_vars, ask_vars,
                   access_vars, stream, limiter, call>>

NextManager ==
    \/ \E ws \in Sockets, c \in SocketDocs :
            WsConnect(ws, c) /\ UNCHANGED manager_frame
    \/ \E ws \in Sockets, c \in SocketDocs :
            WsDisconnect(ws, c) /\ UNCHANGED manager_frame
    \/ ListenerEnds /\ UNCHANGED manager_frame
    \/ \E c \in SocketDocs : PublishStatus(c) /\ UNCHANGED manager_frame
    \/ ListenerForward /\ UNCHANGED manager_frame

SpecManager == InitManager /\ [][NextManager]_vars

\* C39: while at least one WebSocket is registered with the connection
\* manager a pub/sub listener task is running: if the listener ended because
\* of an error, a later connect starts a new one, so that progress events
\* published afterwards are still forwarded to the sockets subscribed to
\* that document.
C39_ListenerRestarted ==
    [][/\ (Registered' \ Registered # {})
            => manager'.listener_task = "running"
       /\ (manager'.events # manager.events /\ Registered # {}
           /\ manager.listener_task # "None")
            => manager'.inbox # manager.inbox]_vars

====
